---------------------------- MODULE Spec2Model ----------------------------
(***************************************************************************)
(* Bluetooth adapter lifecycle manager                                     *)
(* (system/gd/rust/linux/mgmt/src/state_machine.rs).                       *)
(*                                                                         *)
(* The model has three layers:                                             *)
(*   - StateMachineInternal: the adapter table, the global flags and the   *)
(*     action_* transition functions, as operators over a record `sm`;     *)
(*   - CommandTimeout: the per-hci deadline map, the shared waker and the  *)
(*     timer task;                                                         *)
(*   - mainloop: the bounded mpsc queue, its producers and the single      *)
(*     consumer, one action per message handler.                           *)
(***************************************************************************)
EXTENDS Integers, Sequences, FiniteSets, Bags, TLC

(***************************************************************************)
(* Bounds of the model.                                                    *)
(***************************************************************************)
\* HCI indices are 0..MaxHci.
MaxHci == 1
\* In Spec the daemons of hci 0..MaxDaemon are started, stopped and timed;
\* the other hci only appear and disappear.
MaxDaemon == 0
\* Capacity of the mpsc channel as modelled (the code's channel holds 10).
MaxQueue == 1
\* In SpecRun: the CommandTimeout messages the channel holds at most.
MaxRunQueue == 2
\* COMMAND_TIMEOUT_DURATION measured in clock ticks of the model.
TimeoutTicks == 1
\* In SpecDefault the hci indices are 0..MaxAdapter.
MaxAdapter == 2
\* In SpecEnv: the management events not yet read at most, and the
\* spawned tasks alive at most.
MaxMgmt == 1
MaxTasks == 2
MaxEvents == 2

(***************************************************************************)
(* Program constants.                                                      *)
(***************************************************************************)
RESET_ON_RESTART_COUNT == 2

HCIs == 0..MaxHci
DaemonHCIs == 0..MaxDaemon
\* The pid a daemon writes into its pid file; 0 is what an unparsable file
\* body yields (unwrap_or(0)).
DaemonPid == 12345
Pids == {0, DaemonPid}
\* "No hci" payload of an action or message that carries none.
NoHci == -1

ProcessState == {"Off", "TurningOn", "On", "TurningOff"}

state_to_enabled(s) == s = "On"

(***************************************************************************)
(* AdapterState and the adapter table (BTreeMap<i32, AdapterState>).  The  *)
(* table is a function whose DOMAIN is the set of known hci indices.       *)
(***************************************************************************)
AdapterState_new(hci) ==
    [state |-> "Off", hci |-> hci, present |-> FALSE,
     config_enabled |-> FALSE, pid |-> 0, restart_count |-> 0]

\* The record `sm` bundles StateMachineInternal's fields with the commands
\* handed to the process manager / hci reset during the current call.
StateMachineInternal_new(floss, desired) ==
    [state |-> << >>, floss_enabled |-> floss, default_adapter |-> desired,
     desired_adapter |-> desired, cmds |-> << >>]

is_known(sm, hci) == hci \in DOMAIN sm.state

get_floss_enabled(sm) == sm.floss_enabled

get_process_state(sm, hci) ==
    IF hci \in DOMAIN sm.state THEN sm.state[hci].state ELSE "Off"

get_present(sm, hci) ==
    IF hci \in DOMAIN sm.state THEN sm.state[hci].present ELSE FALSE

get_config_enabled(sm, hci) ==
    IF hci \in DOMAIN sm.state THEN sm.state[hci].config_enabled ELSE FALSE

get_restart_count(sm, hci) ==
    IF hci \in DOMAIN sm.state THEN sm.state[hci].restart_count ELSE 0

\* modify_state whose closure runs on every entry of the table.
modify_state_every(sm, hci, upd) ==
    LET old(h) == IF h \in DOMAIN sm.state THEN sm.state[h]
                  ELSE AdapterState_new(h)
        new(h) == [f \in DOMAIN old(h) |->
                      IF f \in DOMAIN upd THEN upd[f] ELSE old(h)[f]]
    IN  [sm EXCEPT !.state =
            [h \in (DOMAIN sm.state) \cup {hci} |-> new(h)]]

\* entry(hci).or_insert(AdapterState::new(hci)), then the closure: `upd`
\* is the record of the fields the closure assigns.
modify_state(sm, hci, upd) ==
    LET old == IF hci \in DOMAIN sm.state THEN sm.state[hci]
               ELSE AdapterState_new(hci)
        new == [f \in DOMAIN old |-> IF f \in DOMAIN upd THEN upd[f] ELSE old[f]]
    IN  [sm EXCEPT !.state =
            [h \in (DOMAIN sm.state) \cup {hci} |->
                IF h = hci THEN new ELSE sm.state[h]]]

process_manager_start(sm, hci) == [sm EXCEPT !.cmds = Append(@, <<"Start", hci>>)]
process_manager_stop(sm, hci)  == [sm EXCEPT !.cmds = Append(@, <<"Stop", hci>>)]
reset_hci(sm, hci)             == [sm EXCEPT !.cmds = Append(@, <<"Reset", hci>>)]

\* get_lowest_available_adapter that takes the last present entry of the
\* table instead of the first.
get_lowest_available_adapter_last(sm) ==
    LET avail == {h \in DOMAIN sm.state : sm.state[h].present}
    IN  IF avail = {} THEN NoHci
        ELSE CHOOSE h \in avail : \A g \in avail : h >= g

\* Lowest key of the BTreeMap whose adapter is present; NoHci for None.
get_lowest_available_adapter(sm) ==
    LET avail == {h \in DOMAIN sm.state : sm.state[h].present}
    IN  IF avail = {} THEN NoHci
        ELSE CHOOSE h \in avail : \A g \in avail : h <= g

DoNothingChange == <<"DoNothing", NoHci>>
NewDefaultAdapter(hci) == <<"NewDefaultAdapter", hci>>

\* set_desired_default_adapter that does not ask whether the adapter is
\* present.
set_desired_default_adapter_absent(sm, adapter) ==
    LET s1 == [sm EXCEPT !.desired_adapter = adapter]
    IN  IF s1.default_adapter # adapter
        THEN [sm |-> [s1 EXCEPT !.default_adapter = adapter],
              ret |-> NewDefaultAdapter(adapter)]
        ELSE [sm |-> s1, ret |-> DoNothingChange]

set_desired_default_adapter(sm, adapter) ==
    LET s1 == [sm EXCEPT !.desired_adapter = adapter]
    IN  IF s1.default_adapter # adapter /\ get_present(s1, adapter)
        THEN [sm |-> [s1 EXCEPT !.default_adapter = adapter],
              ret |-> NewDefaultAdapter(adapter)]
        ELSE [sm |-> s1, ret |-> DoNothingChange]

\* action_start_bluetooth that starts from Off only.
action_start_bluetooth_off_only(sm, hci) ==
    LET state == get_process_state(sm, hci)
        present == get_present(sm, hci)
        floss_enabled == get_floss_enabled(sm)
    IN  IF state = "Off" /\ present /\ floss_enabled
        THEN [sm |-> process_manager_start(
                        modify_state(sm, hci, [state |-> "TurningOn"]), hci),
              ret |-> "ResetTimer"]
        ELSE [sm |-> sm, ret |-> "DoNothing"]

\* action_start_bluetooth that does not read floss_enabled.
action_start_bluetooth_ignores_floss(sm, hci) ==
    LET state == get_process_state(sm, hci)
        present == get_present(sm, hci)
    IN  IF state \in {"Off", "TurningOn"} /\ present
        THEN [sm |-> process_manager_start(
                        modify_state(sm, hci, [state |-> "TurningOn"]), hci),
              ret |-> "ResetTimer"]
        ELSE [sm |-> sm, ret |-> "DoNothing"]

action_start_bluetooth(sm, hci) ==
    LET state == get_process_state(sm, hci)
        present == get_present(sm, hci)
        floss_enabled == get_floss_enabled(sm)
    IN  IF state \in {"Off", "TurningOn"} /\ present /\ floss_enabled
        THEN [sm |-> process_manager_start(
                        modify_state(sm, hci, [state |-> "TurningOn"]), hci),
              ret |-> "ResetTimer"]
        ELSE [sm |-> sm, ret |-> "DoNothing"]

\* action_stop_bluetooth that treats TurningOn like On.
action_stop_bluetooth_turning_off(sm, hci) ==
    IF ~is_known(sm, hci) THEN [sm |-> sm, ret |-> "DoNothing"]
    ELSE LET state == get_process_state(sm, hci)
         IN  IF state \in {"On", "TurningOn"}
             THEN [sm |-> process_manager_stop(
                             modify_state(sm, hci, [state |-> "TurningOff"]), hci),
                   ret |-> "ResetTimer"]
             ELSE [sm |-> sm, ret |-> "DoNothing"]

\* action_stop_bluetooth without the is_known check, writing Off in the
\* no-op branch.
action_stop_bluetooth_inserts(sm, hci) ==
    LET state == get_process_state(sm, hci)
    IN  CASE state = "On" ->
               [sm |-> process_manager_stop(
                          modify_state(sm, hci, [state |-> "TurningOff"]), hci),
                ret |-> "ResetTimer"]
          [] state = "TurningOn" ->
               [sm |-> process_manager_stop(
                          modify_state(sm, hci, [state |-> "Off"]), hci),
                ret |-> "CancelTimer"]
          [] state = "Off" ->
               [sm |-> modify_state(sm, hci, [state |-> "Off"]),
                ret |-> "DoNothing"]
          [] OTHER -> [sm |-> sm, ret |-> "DoNothing"]

action_stop_bluetooth(sm, hci) ==
    IF ~is_known(sm, hci) THEN [sm |-> sm, ret |-> "DoNothing"]
    ELSE LET state == get_process_state(sm, hci)
         IN  CASE state = "On" ->
                    [sm |-> process_manager_stop(
                               modify_state(sm, hci, [state |-> "TurningOff"]), hci),
                     ret |-> "ResetTimer"]
               [] state = "TurningOn" ->
                    [sm |-> process_manager_stop(
                               modify_state(sm, hci, [state |-> "Off"]), hci),
                     ret |-> "CancelTimer"]
               [] OTHER -> [sm |-> sm, ret |-> "DoNothing"]

\* action_on_bluetooth_started that keeps restart_count.
action_on_bluetooth_started_keeps_count(sm, pid, hci) ==
    LET s1 == IF ~is_known(sm, hci)
              THEN modify_state(sm, hci, [state |-> "Off"])
              ELSE sm
    IN  [sm |-> modify_state(s1, hci, [state |-> "On", pid |-> pid]),
         ret |-> "CancelTimer"]

action_on_bluetooth_started(sm, pid, hci) ==
    LET s1 == IF ~is_known(sm, hci)
              THEN modify_state(sm, hci, [state |-> "Off"])
              ELSE sm
    IN  [sm |-> modify_state(s1, hci,
                    [state |-> "On", restart_count |-> 0, pid |-> pid]),
         ret |-> "CancelTimer"]

\* action_on_bluetooth_stopped that leaves the timer alone in TurningOff.
action_on_bluetooth_stopped_keeps_timer(sm, hci) ==
    LET state == get_process_state(sm, hci)
        config_enabled == get_config_enabled(sm, hci)
        floss_enabled == get_floss_enabled(sm)
        restart_count == get_restart_count(sm, hci)
    IN  CASE state = "TurningOff" ->
               [sm |-> modify_state(sm, hci, [state |-> "Off"]),
                ret |-> "DoNothing"]
          [] state = "On" /\ floss_enabled /\ config_enabled ->
               IF restart_count >= RESET_ON_RESTART_COUNT
               THEN [sm |-> reset_hci(
                               modify_state(sm, hci,
                                   [state |-> "Off", restart_count |-> 0]), hci),
                     ret |-> "CancelTimer"]
               ELSE [sm |-> process_manager_start(
                               modify_state(sm, hci,
                                   [state |-> "TurningOn",
                                    restart_count |-> restart_count + 1]), hci),
                     ret |-> "ResetTimer"]
          [] OTHER ->
               [sm |-> modify_state(sm, hci, [state |-> "Off"]),
                ret |-> "CancelTimer"]

\* action_on_bluetooth_stopped that restarts a present adapter only.
action_on_bluetooth_stopped_needs_present(sm, hci) ==
    LET state == get_process_state(sm, hci)
        config_enabled == get_config_enabled(sm, hci)
        floss_enabled == get_floss_enabled(sm)
        restart_count == get_restart_count(sm, hci)
    IN  CASE state = "TurningOff" ->
               [sm |-> modify_state(sm, hci, [state |-> "Off"]),
                ret |-> "CancelTimer"]
          [] state = "On" /\ floss_enabled /\ config_enabled
                /\ get_present(sm, hci) ->
               IF restart_count >= RESET_ON_RESTART_COUNT
               THEN [sm |-> reset_hci(
                               modify_state(sm, hci,
                                   [state |-> "Off", restart_count |-> 0]), hci),
                     ret |-> "CancelTimer"]
               ELSE [sm |-> process_manager_start(
                               modify_state(sm, hci,
                                   [state |-> "TurningOn",
                                    restart_count |-> restart_count + 1]), hci),
                     ret |-> "ResetTimer"]
          [] OTHER ->
               [sm |-> modify_state(sm, hci, [state |-> "Off"]),
                ret |-> "CancelTimer"]

\* action_on_bluetooth_stopped that clears restart_count in the last arm.
action_on_bluetooth_stopped_clears_count(sm, hci) ==
    LET state == get_process_state(sm, hci)
        config_enabled == get_config_enabled(sm, hci)
        floss_enabled == get_floss_enabled(sm)
        restart_count == get_restart_count(sm, hci)
    IN  CASE state = "TurningOff" ->
               [sm |-> modify_state(sm, hci, [state |-> "Off"]),
                ret |-> "CancelTimer"]
          [] state = "On" /\ floss_enabled /\ config_enabled ->
               IF restart_count >= RESET_ON_RESTART_COUNT
               THEN [sm |-> reset_hci(
                               modify_state(sm, hci,
                                   [state |-> "Off", restart_count |-> 0]), hci),
                     ret |-> "CancelTimer"]
               ELSE [sm |-> process_manager_start(
                               modify_state(sm, hci,
                                   [state |-> "TurningOn",
                                    restart_count |-> restart_count + 1]), hci),
                     ret |-> "ResetTimer"]
          [] OTHER ->
               [sm |-> modify_state(sm, hci,
                           [state |-> "Off", restart_count |-> 0]),
                ret |-> "CancelTimer"]

\* action_on_bluetooth_stopped that restarts a crashed daemon without looking
\* at floss_enabled.
action_on_bluetooth_stopped_ignores_floss(sm, hci) ==
    LET state == get_process_state(sm, hci)
        config_enabled == get_config_enabled(sm, hci)
        restart_count == get_restart_count(sm, hci)
    IN  CASE state = "TurningOff" ->
               [sm |-> modify_state(sm, hci, [state |-> "Off"]),
                ret |-> "CancelTimer"]
          [] state = "On" /\ config_enabled ->
               IF restart_count >= RESET_ON_RESTART_COUNT
               THEN [sm |-> reset_hci(
                               modify_state(sm, hci,
                                   [state |-> "Off", restart_count |-> 0]), hci),
                     ret |-> "CancelTimer"]
               ELSE [sm |-> process_manager_start(
                               modify_state(sm, hci,
                                   [state |-> "TurningOn",
                                    restart_count |-> restart_count + 1]), hci),
                     ret |-> "ResetTimer"]
          [] OTHER ->
               [sm |-> modify_state(sm, hci, [state |-> "Off"]),
                ret |-> "CancelTimer"]

action_on_bluetooth_stopped(sm, hci) ==
    LET state == get_process_state(sm, hci)
        config_enabled == get_config_enabled(sm, hci)
        floss_enabled == get_floss_enabled(sm)
        restart_count == get_restart_count(sm, hci)
    IN  CASE state = "TurningOff" ->
               [sm |-> modify_state(sm, hci, [state |-> "Off"]),
                ret |-> "CancelTimer"]
          [] state = "On" /\ floss_enabled /\ config_enabled ->
               IF restart_count >= RESET_ON_RESTART_COUNT
               THEN [sm |-> reset_hci(
                               modify_state(sm, hci,
                                   [state |-> "Off", restart_count |-> 0]), hci),
                     ret |-> "CancelTimer"]
               ELSE [sm |-> process_manager_start(
                               modify_state(sm, hci,
                                   [state |-> "TurningOn",
                                    restart_count |-> restart_count + 1]), hci),
                     ret |-> "ResetTimer"]
          [] OTHER ->
               [sm |-> modify_state(sm, hci, [state |-> "Off"]),
                ret |-> "CancelTimer"]

\* action_on_command_timeout that compares restart_count with > for >=.
action_on_command_timeout_off_by_one(sm, hci) ==
    LET state == get_process_state(sm, hci)
        floss_enabled == get_floss_enabled(sm)
        config_enabled == get_config_enabled(sm, hci)
        restart_count == get_restart_count(sm, hci)
    IN  CASE state = "TurningOn" /\ ~floss_enabled ->
               [sm |-> process_manager_stop(
                          modify_state(sm, hci, [state |-> "Off"]), hci),
                ret |-> "Noop"]
          [] state = "TurningOn" /\ floss_enabled /\ config_enabled ->
               IF restart_count > RESET_ON_RESTART_COUNT
               THEN [sm |-> reset_hci(
                               modify_state(sm, hci,
                                   [state |-> "Off", restart_count |-> 0]), hci),
                     ret |-> "Noop"]
               ELSE [sm |-> process_manager_start(process_manager_stop(
                               modify_state(sm, hci,
                                   [state |-> "TurningOn",
                                    restart_count |-> restart_count + 1]), hci), hci),
                     ret |-> "RetryStart"]
          [] state = "TurningOff" ->
               [sm |-> process_manager_stop(sm, hci), ret |-> "RetryStop"]
          [] OTHER -> [sm |-> sm, ret |-> "Noop"]

\* action_on_command_timeout that gives Start before Stop when it retries.
action_on_command_timeout_start_first(sm, hci) ==
    LET state == get_process_state(sm, hci)
        floss_enabled == get_floss_enabled(sm)
        config_enabled == get_config_enabled(sm, hci)
        restart_count == get_restart_count(sm, hci)
    IN  CASE state = "TurningOn" /\ ~floss_enabled ->
               [sm |-> process_manager_stop(
                          modify_state(sm, hci, [state |-> "Off"]), hci),
                ret |-> "Noop"]
          [] state = "TurningOn" /\ floss_enabled /\ config_enabled ->
               IF restart_count >= RESET_ON_RESTART_COUNT
               THEN [sm |-> reset_hci(
                               modify_state(sm, hci,
                                   [state |-> "Off", restart_count |-> 0]), hci),
                     ret |-> "Noop"]
               ELSE [sm |-> process_manager_stop(process_manager_start(
                               modify_state(sm, hci,
                                   [state |-> "TurningOn",
                                    restart_count |-> restart_count + 1]), hci), hci),
                     ret |-> "RetryStart"]
          [] state = "TurningOff" ->
               [sm |-> process_manager_stop(sm, hci), ret |-> "RetryStop"]
          [] OTHER -> [sm |-> sm, ret |-> "Noop"]

\* action_on_command_timeout that looks at config_enabled before
\* floss_enabled.
action_on_command_timeout_config_first(sm, hci) ==
    LET state == get_process_state(sm, hci)
        floss_enabled == get_floss_enabled(sm)
        config_enabled == get_config_enabled(sm, hci)
        restart_count == get_restart_count(sm, hci)
    IN  CASE state = "TurningOn" /\ ~floss_enabled /\ ~config_enabled ->
               [sm |-> process_manager_stop(
                          modify_state(sm, hci, [state |-> "Off"]), hci),
                ret |-> "Noop"]
          [] state = "TurningOn" /\ config_enabled ->
               IF restart_count >= RESET_ON_RESTART_COUNT
               THEN [sm |-> reset_hci(
                               modify_state(sm, hci,
                                   [state |-> "Off", restart_count |-> 0]), hci),
                     ret |-> "Noop"]
               ELSE [sm |-> process_manager_start(process_manager_stop(
                               modify_state(sm, hci,
                                   [state |-> "TurningOn",
                                    restart_count |-> restart_count + 1]), hci), hci),
                     ret |-> "RetryStart"]
          [] state = "TurningOff" ->
               [sm |-> process_manager_stop(sm, hci), ret |-> "RetryStop"]
          [] OTHER -> [sm |-> sm, ret |-> "Noop"]

\* action_on_command_timeout that gives up in TurningOff.
action_on_command_timeout_no_retry_stop(sm, hci) ==
    LET state == get_process_state(sm, hci)
        floss_enabled == get_floss_enabled(sm)
        config_enabled == get_config_enabled(sm, hci)
        restart_count == get_restart_count(sm, hci)
    IN  CASE state = "TurningOn" /\ ~floss_enabled ->
               [sm |-> process_manager_stop(
                          modify_state(sm, hci, [state |-> "Off"]), hci),
                ret |-> "Noop"]
          [] state = "TurningOn" /\ floss_enabled /\ config_enabled ->
               IF restart_count >= RESET_ON_RESTART_COUNT
               THEN [sm |-> reset_hci(
                               modify_state(sm, hci,
                                   [state |-> "Off", restart_count |-> 0]), hci),
                     ret |-> "Noop"]
               ELSE [sm |-> process_manager_start(process_manager_stop(
                               modify_state(sm, hci,
                                   [state |-> "TurningOn",
                                    restart_count |-> restart_count + 1]), hci), hci),
                     ret |-> "RetryStart"]
          [] state = "TurningOff" ->
               [sm |-> sm, ret |-> "Noop"]
          [] OTHER -> [sm |-> sm, ret |-> "Noop"]

action_on_command_timeout(sm, hci) ==
    LET state == get_process_state(sm, hci)
        floss_enabled == get_floss_enabled(sm)
        config_enabled == get_config_enabled(sm, hci)
        restart_count == get_restart_count(sm, hci)
    IN  CASE state = "TurningOn" /\ ~floss_enabled ->
               [sm |-> process_manager_stop(
                          modify_state(sm, hci, [state |-> "Off"]), hci),
                ret |-> "Noop"]
          [] state = "TurningOn" /\ floss_enabled /\ config_enabled ->
               IF restart_count >= RESET_ON_RESTART_COUNT
               THEN [sm |-> reset_hci(
                               modify_state(sm, hci,
                                   [state |-> "Off", restart_count |-> 0]), hci),
                     ret |-> "Noop"]
               ELSE [sm |-> process_manager_start(process_manager_stop(
                               modify_state(sm, hci,
                                   [state |-> "TurningOn",
                                    restart_count |-> restart_count + 1]), hci), hci),
                     ret |-> "RetryStart"]
          [] state = "TurningOff" ->
               [sm |-> process_manager_stop(sm, hci), ret |-> "RetryStop"]
          [] OTHER -> [sm |-> sm, ret |-> "Noop"]

\* action_on_hci_presence_changed without the switch to a newly present
\* desired adapter.
action_on_hci_presence_changed_no_switch(sm, hci, present) ==
    LET prev_present == get_present(sm, hci)
        prev_state == get_process_state(sm, hci)
    IN  IF prev_present = present
        THEN [sm |-> sm, ret |-> <<prev_state, DoNothingChange>>]
        ELSE
        LET s1 == modify_state(sm, hci, [present |-> present])
            autostart == /\ s1.state[hci].state = "Off"
                         /\ s1.state[hci].config_enabled
                         /\ get_floss_enabled(s1) /\ present
            s2 == IF autostart
                  THEN action_start_bluetooth(
                           modify_state(s1, hci, [restart_count |-> 0]), hci).sm
                  ELSE s1
            next_state == IF autostart THEN "TurningOn" ELSE prev_state
            lowest == get_lowest_available_adapter(s2)
        IN  IF ~present /\ hci = s2.default_adapter /\ lowest # NoHci
            THEN [sm |-> s2, ret |-> <<next_state, NewDefaultAdapter(lowest)>>]
            ELSE [sm |-> s2, ret |-> <<next_state, DoNothingChange>>]

\* action_on_hci_presence_changed without its two no-op checks: it goes on
\* when present is what it was, and announces the desired adapter when it
\* is the default already.
action_on_hci_presence_changed_repeats(sm, hci, present) ==
    LET prev_state == get_process_state(sm, hci)
        s1 == modify_state(sm, hci, [present |-> present])
        floss_enabled == get_floss_enabled(s1)
        autostart == /\ s1.state[hci].state = "Off"
                     /\ s1.state[hci].config_enabled
                     /\ floss_enabled /\ present
        s2 == IF autostart
              THEN action_start_bluetooth(
                       modify_state(s1, hci, [restart_count |-> 0]), hci).sm
              ELSE s1
        next_state == IF autostart THEN "TurningOn" ELSE prev_state
        default_adapter == s2.default_adapter
        desired_adapter == s2.desired_adapter
        lowest == get_lowest_available_adapter(s2)
    IN  IF present /\ hci = desired_adapter
        THEN [sm |-> s2, ret |-> <<next_state, NewDefaultAdapter(desired_adapter)>>]
        ELSE IF ~present /\ hci = default_adapter
        THEN IF lowest # NoHci
             THEN [sm |-> s2, ret |-> <<next_state, NewDefaultAdapter(lowest)>>]
             ELSE [sm |-> s2, ret |-> <<next_state, DoNothingChange>>]
        ELSE [sm |-> s2, ret |-> <<next_state, DoNothingChange>>]

\* action_on_hci_presence_changed that keeps restart_count when it starts
\* the adapter.
action_on_hci_presence_changed_keeps_count(sm, hci, present) ==
    LET prev_present == get_present(sm, hci)
        prev_state == get_process_state(sm, hci)
    IN  IF prev_present = present
        THEN [sm |-> sm, ret |-> <<prev_state, DoNothingChange>>]
        ELSE
        LET s1 == modify_state(sm, hci, [present |-> present])
            floss_enabled == get_floss_enabled(s1)
            autostart == /\ s1.state[hci].state = "Off"
                         /\ s1.state[hci].config_enabled
                         /\ floss_enabled /\ present
            s2 == IF autostart
                  THEN action_start_bluetooth(s1, hci).sm
                  ELSE s1
            next_state == IF autostart THEN "TurningOn" ELSE prev_state
            default_adapter == s2.default_adapter
            desired_adapter == s2.desired_adapter
            lowest == get_lowest_available_adapter(s2)
        IN  IF present /\ hci = desired_adapter /\ hci # default_adapter
            THEN [sm |-> s2, ret |-> <<next_state, NewDefaultAdapter(desired_adapter)>>]
            ELSE IF ~present /\ hci = default_adapter
            THEN IF lowest # NoHci
                 THEN [sm |-> s2, ret |-> <<next_state, NewDefaultAdapter(lowest)>>]
                 ELSE [sm |-> s2, ret |-> <<next_state, DoNothingChange>>]
            ELSE [sm |-> s2, ret |-> <<next_state, DoNothingChange>>]

\* Returns ret = <<next_state, AdapterChangeAction>>.
action_on_hci_presence_changed(sm, hci, present) ==
    LET prev_present == get_present(sm, hci)
        prev_state == get_process_state(sm, hci)
    IN  IF prev_present = present
        THEN [sm |-> sm, ret |-> <<prev_state, DoNothingChange>>]
        ELSE
        LET s1 == modify_state(sm, hci, [present |-> present])
            floss_enabled == get_floss_enabled(s1)
            autostart == /\ s1.state[hci].state = "Off"
                         /\ s1.state[hci].config_enabled
                         /\ floss_enabled /\ present
            \* The CommandTimeoutAction action_start_bluetooth returns is
            \* dropped here.
            s2 == IF autostart
                  THEN action_start_bluetooth(
                           modify_state(s1, hci, [restart_count |-> 0]), hci).sm
                  ELSE s1
            next_state == IF autostart THEN "TurningOn" ELSE prev_state
            default_adapter == s2.default_adapter
            desired_adapter == s2.desired_adapter
            lowest == get_lowest_available_adapter(s2)
        IN  IF present /\ hci = desired_adapter /\ hci # default_adapter
            THEN [sm |-> s2, ret |-> <<next_state, NewDefaultAdapter(desired_adapter)>>]
            ELSE IF ~present /\ hci = default_adapter
            THEN IF lowest # NoHci
                 THEN [sm |-> s2, ret |-> <<next_state, NewDefaultAdapter(lowest)>>]
                 ELSE [sm |-> s2, ret |-> <<next_state, DoNothingChange>>]
            ELSE [sm |-> s2, ret |-> <<next_state, DoNothingChange>>]


(***************************************************************************)
(* PID file names and get_hci_index_from_pid_path.  A path is a sequence   *)
(* of one-character strings.  The regex is bluetooth([0-9]+).pid,          *)
(* unanchored, with `.` matching any character; the capture is parsed as   *)
(* an i32.                                                                 *)
(***************************************************************************)
Digits == <<"0", "1", "2", "3", "4", "5", "6", "7", "8", "9">>
IsDigit(c) == \E d \in 1..10 : Digits[d] = c
DigitVal(c) == (CHOOSE d \in 1..10 : Digits[d] = c) - 1
I32Max == 2147483647

\* str::parse::<i32> of a run of digits: the value, or -1 for the Err of a
\* value above i32::MAX.
RECURSIVE DecimalValue(_)
DecimalValue(ds) ==
    IF ds = << >> THEN 0
    ELSE LET v == DecimalValue(SubSeq(ds, 1, Len(ds) - 1))
             d == DigitVal(ds[Len(ds)])
         IN  IF v < 0 \/ v > (I32Max - d) \div 10 THEN -1
             ELSE 10 * v + d

BluetoothLit == <<"b", "l", "u", "e", "t", "o", "o", "t", "h">>
PidLit == <<"p", "i", "d">>

\* The regex matches at position i with a capture of k digits.
RegexMatchesAt(path, i, k) ==
    /\ k >= 1
    /\ i + 9 + k + 3 <= Len(path)
    /\ SubSeq(path, i, i + 8) = BluetoothLit
    /\ \A j \in (i + 9)..(i + 9 + k - 1) : IsDigit(path[j])
    /\ path[i + 9 + k] # "\n"
    /\ SubSeq(path, i + 9 + k + 1, i + 9 + k + 3) = PidLit

\* Some(n) is n >= 0; None is NoHci.
get_hci_index_from_pid_path(path) ==
    LET starts == {i \in 1..Len(path) : \E k \in 1..Len(path) : RegexMatchesAt(path, i, k)}
    IN  IF starts = {} THEN NoHci
        ELSE LET i == CHOOSE a \in starts : \A b \in starts : a <= b
                 ks == {k \in 1..Len(path) : RegexMatchesAt(path, i, k)}
                 k == CHOOSE a \in ks : \A b \in ks : a >= b
                 n == DecimalValue(SubSeq(path, i + 9, i + 9 + k - 1))
             IN  IF n >= 0 THEN n ELSE NoHci

PidFileName(hci) == BluetoothLit \o <<Digits[hci + 1]>> \o <<".">> \o PidLit
GarbageName == <<"g", "a", "r", "b", "a", "g", "e">>
NoName == << >>
PidDirNames == {PidFileName(h) : h \in DaemonHCIs} \cup {GarbageName}
\* get_hci_index_from_pid_path on the names that occur, evaluated once.
HciIndexOfName ==
    [n \in PidDirNames \cup {NoName} |-> get_hci_index_from_pid_path(n)]

(***************************************************************************)
(* Messages of the mpsc channel.  Every message is a record with the same  *)
(* fields; the ones a kind does not carry hold a default.                  *)
(***************************************************************************)
Msg(kind, hci, pid, present, mask, name) ==
    [kind |-> kind, hci |-> hci, pid |-> pid, present |-> present,
     mask |-> mask, name |-> name]

StartBluetooth(hci) == Msg("StartBluetooth", hci, 0, FALSE, "", NoName)
StopBluetooth(hci) == Msg("StopBluetooth", hci, 0, FALSE, "", NoName)
BluetoothStarted(pid, hci) == Msg("BluetoothStarted", hci, pid, FALSE, "", NoName)
BluetoothStopped(hci) == Msg("BluetoothStopped", hci, 0, FALSE, "", NoName)
HciDevicePresence(hci, present) == Msg("HciDevicePresence", hci, 0, present, "", NoName)
PidChange(mask, name) == Msg("PidChange", NoHci, 0, FALSE, mask, name)
CallbackDisconnected(id) == Msg("CallbackDisconnected", NoHci, id, FALSE, "", NoName)
CommandTimeoutMsg(hci) == Msg("CommandTimeout", hci, 0, FALSE, "", NoName)
SetDesiredDefaultAdapter(hci) == Msg("SetDesiredDefaultAdapter", hci, 0, FALSE, "", NoName)

(***************************************************************************)
(* CommandTimeout.  An Instant is kept relative to the current time: the   *)
(* number of ticks left until it, -1 once it lies in the past.  The waker  *)
(* is the number of ticks until the alarm fires, 0 when it has fired and   *)
(* not been consumed, WakerIdle when it is not armed.                      *)
(***************************************************************************)
WakerIdle == -1

CommandTimeout_new ==
    [per_hci_timeout |-> << >>, expired |-> TRUE, waker |-> WakerIdle]

\* set_next that never arms the alarm.
set_next_no_rearm(ct, hci) ==
    LET t == [h \in (DOMAIN ct.per_hci_timeout) \cup {hci} |->
                 IF h = hci THEN TimeoutTicks ELSE ct.per_hci_timeout[h]]
    IN  [ct EXCEPT !.per_hci_timeout = t]

set_next(ct, hci) ==
    LET t == [h \in (DOMAIN ct.per_hci_timeout) \cup {hci} |->
                 IF h = hci THEN TimeoutTicks ELSE ct.per_hci_timeout[h]]
    IN  IF ct.expired
        THEN [per_hci_timeout |-> t, expired |-> FALSE, waker |-> TimeoutTicks]
        ELSE [ct EXCEPT !.per_hci_timeout = t]

cancel(ct, hci) ==
    [ct EXCEPT !.per_hci_timeout =
        [h \in (DOMAIN ct.per_hci_timeout) \ {hci} |-> ct.per_hci_timeout[h]]]

\* The hci whose deadline is older than now.
expire_completed(ct) ==
    {h \in DOMAIN ct.per_hci_timeout : ct.per_hci_timeout[h] < 0}

\* The CommandTimeout after expire(); the alarm that woke the task has been
\* consumed.
expire(ct) ==
    LET completed == expire_completed(ct)
        rest == (DOMAIN ct.per_hci_timeout) \ completed
        cands == {ct.per_hci_timeout[h] : h \in rest} \cup {TimeoutTicks}
        next_expiry == CHOOSE a \in cands : \A b \in cands : a <= b
        t == [h \in rest |-> ct.per_hci_timeout[h]]
    IN  IF rest # {}
        THEN [per_hci_timeout |-> t, expired |-> FALSE, waker |-> next_expiry]
        ELSE [per_hci_timeout |-> t, expired |-> TRUE, waker |-> WakerIdle]

handle_timeout_action(ct, hci, action) ==
    CASE action = "ResetTimer" -> set_next(ct, hci)
      [] action = "CancelTimer" -> cancel(ct, hci)
      [] OTHER -> ct


(***************************************************************************)
(* The running system: StateMachineContext, the timer task, the producers  *)
(* and mainloop.                                                           *)
\* The task configure_pid spawns, at its start:
\*   pc          "list" (before list_pid_files), "listed" (sending the listed
\*               files, then pid_inotify_async_fd), "watch" (waiting for the
\*               inotify instance to be readable), "events" (sending the
\*               events it read)
\*   files       the listed files not yet sent
\*   events      the events queued in the inotify instance
\*   batch       the events read and not yet sent
\*   unreported  the pid files of PID_DIR for which no PidChange(CREATE) was
\*               sent since they were created
PidTaskNew ==
    [pc |-> "list", files |-> << >>, events |-> << >>, batch |-> << >>,
     unreported |-> {}]

(***************************************************************************)
VARIABLES
    state,            \* StateMachineInternal.state: hci -> AdapterState
    floss_enabled,    \* StateMachineInternal.floss_enabled
    default_adapter,  \* StateMachineInternal.default_adapter
    desired_adapter,  \* StateMachineInternal.desired_adapter
    per_hci_timeout,  \* CommandTimeout.per_hci_timeout
    expired,          \* CommandTimeout.expired
    waker,            \* CommandTimeout.waker
    rx,               \* the mpsc channel, oldest message first
    loop_pc,          \* mainloop: "recv", "send" (inside send_timeout), "panicked"
    loop_msg,         \* the message mainloop is sending to its own channel
    timer_pc,         \* timer task: "wait" (on the alarm) or "send"
    completed,        \* timer task: expired hci not yet sent as CommandTimeout
    hci_dev,          \* the hci devices the kernel has (check_hci_device_exists)
    mgmt,             \* management-socket events configure_hci has yet to read
    spawned,          \* tokio::spawn'ed tasks that have not finished
    pid_dir,          \* the names of the files in PID_DIR
    pid_task,         \* the task of configure_pid and its inotify instance
    turn              \* what the last finished mainloop handler did

vars == <<state, floss_enabled, default_adapter, desired_adapter,
          per_hci_timeout, expired, waker, rx, loop_pc, loop_msg,
          timer_pc, completed, hci_dev, mgmt, spawned, pid_dir, pid_task,
          turn>>

sm_vars == <<state, floss_enabled, default_adapter, desired_adapter>>
ct_vars == <<per_hci_timeout, expired, waker>>
loop_vars == <<loop_pc, loop_msg, turn>>
timer_vars == <<timer_pc, completed>>
pid_vars == <<pid_dir, pid_task>>
env_vars == <<hci_dev, mgmt, spawned, pid_dir, pid_task>>

\* The state machine and the command timeout as the records the operators
\* above work on.
SM == [state |-> state, floss_enabled |-> floss_enabled,
       default_adapter |-> default_adapter, desired_adapter |-> desired_adapter,
       cmds |-> << >>]
CT == [per_hci_timeout |-> per_hci_timeout, expired |-> expired, waker |-> waker]

NoMsg == Msg("None", NoHci, 0, FALSE, "", NoName)

\* How far the latest turns of mainloop have come in a run of consecutive
\* turns for one hci (kept by SpecRun only):
\*   seq       StartBluetooth from Off (present, floss enabled),
\*             BluetoothStarted, StopBluetooth, BluetoothStopped
\*   stops     BluetoothStopped turns in a row, the first one in On with
\*             floss and config enabled
\*   timeouts  CommandTimeout turns in a row, each in TurningOn with floss
\*             and config enabled
\*   presents  HciDevicePresence(hci, true) turns in a row (2: two or more)
\*   queued    the CommandTimeout of the turn's hci was at the head of rx
\*             when the turn was taken: the timer task had sent it before
\* and, kept by SpecDaemon only:
\*   started   the hci whose daemon was started (process_manager.start) and
\*             neither stopped (process_manager.stop) nor reported stopped
\*             (BluetoothStopped) since
NoRun == [hci |-> NoHci, seq |-> 0, stops |-> 0, timeouts |-> 0, presents |-> 0,
          queued |-> FALSE, started |-> {}]

\* The record of a turn of mainloop: the message, whether its hci was in the
\* table, the handler's prev_state and next_state, what the state machine
\* returned, the commands it gave and the callbacks mainloop made.
Turn(m, prev_state, next_state, ret, cmds, notifs) ==
    [kind |-> m.kind, hci |-> m.hci, msg |-> m, known |-> is_known(SM, m.hci),
     prev_state |-> prev_state, next_state |-> next_state, ret |-> ret,
     cmds |-> cmds, notifs |-> notifs, run |-> NoRun]

NoTurn == [kind |-> "None", hci |-> NoHci, msg |-> NoMsg, known |-> FALSE,
           prev_state |-> "Off", next_state |-> "Off", ret |-> "",
           cmds |-> << >>, notifs |-> << >>, run |-> NoRun]

\* create_new_state_machine_context: floss_enabled and the desired adapter
\* are read from the configuration.
Init ==
    /\ \E floss \in BOOLEAN, desired \in HCIs :
          LET sm == StateMachineInternal_new(floss, desired)
          IN  /\ state = sm.state
              /\ floss_enabled = sm.floss_enabled
              /\ default_adapter = sm.default_adapter
              /\ desired_adapter = sm.desired_adapter
    /\ per_hci_timeout = CommandTimeout_new.per_hci_timeout
    /\ expired = CommandTimeout_new.expired
    /\ waker = CommandTimeout_new.waker
    /\ rx = << >>
    /\ loop_pc = "recv"
    /\ loop_msg = NoMsg
    /\ timer_pc = "wait"
    /\ completed = << >>
    /\ hci_dev = {}
    /\ mgmt = << >>
    /\ spawned = EmptyBag
    /\ pid_dir = {}
    /\ pid_task = PidTaskNew
    /\ turn = NoTurn

Running == loop_pc # "panicked"

(***************************************************************************)
(* mainloop.  A handler runs from rx.recv() to the next rx.recv().  Each   *)
(* On<Message>(m) is the handler of message m as a function of the current *)
(* state: the state machine and the command timeout it leaves behind and   *)
(* the record of what it did.  The PidChange handler is split where it     *)
(* awaits room in its own channel.                                         *)
(***************************************************************************)
\* Writes the state machine and the command timeout of an outcome back.
Commit(o) ==
    /\ state' = o.sm.state
    /\ floss_enabled' = o.sm.floss_enabled
    /\ default_adapter' = o.sm.default_adapter
    /\ desired_adapter' = o.sm.desired_adapter
    /\ per_hci_timeout' = o.ct.per_hci_timeout
    /\ expired' = o.ct.expired
    /\ waker' = o.ct.waker

\* "Only emit enabled event for certain transitions"
EnabledChange(hci, prev_state, next_state) ==
    IF next_state # prev_state /\ (next_state = "On" \/ prev_state = "On")
    THEN << <<"hci_enabled_change", hci, next_state = "On">> >>
    ELSE << >>

\* The four AdapterStateChange branches that end in handle_timeout_action:
\* r is what the action_* function returned, next_state the state the
\* branch assumes.
AdapterStateChange(m, next_state, r) ==
    LET hci == m.hci
        prev_state == get_process_state(SM, hci)
    IN  [sm |-> r.sm,
         ct |-> handle_timeout_action(CT, hci, r.ret),
         turn |-> Turn(m, prev_state, next_state, r.ret, r.sm.cmds,
                       EnabledChange(hci, prev_state, next_state))]

OnStartBluetooth(m) ==
    AdapterStateChange(m, "TurningOn", action_start_bluetooth(SM, m.hci))

OnStopBluetooth(m) ==
    AdapterStateChange(m, "TurningOff", action_stop_bluetooth(SM, m.hci))

OnBluetoothStarted(m) ==
    AdapterStateChange(m, "On", action_on_bluetooth_started(SM, m.pid, m.hci))

OnBluetoothStopped(m) ==
    AdapterStateChange(m, "Off", action_on_bluetooth_stopped(SM, m.hci))

\* The HciDevicePresence branch that announces the default adapter whenever
\* it is the adapter that appeared.
OnHciDevicePresence_announces(m) ==
    LET hci == m.hci
        presence == m.present
        prev_state == get_process_state(SM, hci)
        r == action_on_hci_presence_changed(SM, hci, presence)
        next_state == r.ret[1]
        change == r.ret[2]
        sm == IF change[1] = "NewDefaultAdapter"
              THEN [r.sm EXCEPT !.default_adapter = change[2]]
              ELSE r.sm
        notifs == (IF change[1] = "NewDefaultAdapter"
                   THEN << <<"default_adapter_change", change[2], FALSE>> >>
                   ELSE IF presence /\ hci = sm.default_adapter
                   THEN << <<"default_adapter_change", hci, FALSE>> >>
                   ELSE << >>)
                  \o << <<"hci_device_change", hci, presence>> >>
                  \o EnabledChange(hci, prev_state, next_state)
    IN  [sm |-> sm, ct |-> CT,
         turn |-> Turn(m, prev_state, next_state, change[1],
                       r.sm.cmds, notifs)]

\* The HciDevicePresence branch without the store into default_adapter.
OnHciDevicePresence_no_store(m) ==
    LET hci == m.hci
        presence == m.present
        prev_state == get_process_state(SM, hci)
        r == action_on_hci_presence_changed(SM, hci, presence)
        next_state == r.ret[1]
        change == r.ret[2]
        notifs == (IF change[1] = "NewDefaultAdapter"
                   THEN << <<"default_adapter_change", change[2], FALSE>> >>
                   ELSE << >>)
                  \o << <<"hci_device_change", hci, presence>> >>
                  \o EnabledChange(hci, prev_state, next_state)
    IN  [sm |-> r.sm, ct |-> CT,
         turn |-> Turn(m, prev_state, next_state, change[1],
                       r.sm.cmds, notifs)]

OnHciDevicePresence(m) ==
    LET hci == m.hci
        presence == m.present
        prev_state == get_process_state(SM, hci)
        r == action_on_hci_presence_changed(SM, hci, presence)
        next_state == r.ret[1]
        change == r.ret[2]
        sm == IF change[1] = "NewDefaultAdapter"
              THEN [r.sm EXCEPT !.default_adapter = change[2]]
              ELSE r.sm
        notifs == (IF change[1] = "NewDefaultAdapter"
                   THEN << <<"default_adapter_change", change[2], FALSE>> >>
                   ELSE << >>)
                  \o << <<"hci_device_change", hci, presence>> >>
                  \o EnabledChange(hci, prev_state, next_state)
    IN  [sm |-> sm, ct |-> CT,
         turn |-> Turn(m, prev_state, next_state, change[1],
                       r.sm.cmds, notifs)]

OnCallbackDisconnected(m) ==
    [sm |-> SM, ct |-> CT,
     turn |-> Turn(m, "Off", "Off", "", << >>,
                   << <<"callback_disconnected", m.pid, FALSE>> >>)]

OnCommandTimeout(m) ==
    LET hci == m.hci
        prev_state == get_process_state(SM, hci)
        r == action_on_command_timeout(SM, hci)
    IN  [sm |-> r.sm,
         ct |-> IF r.ret = "Noop" THEN CT ELSE set_next(CT, hci),
         turn |-> Turn(m, prev_state, get_process_state(r.sm, hci),
                       r.ret, r.sm.cmds, << >>)]

OnSetDesiredDefaultAdapter(m) ==
    LET hci == m.hci
        r == set_desired_default_adapter(SM, hci)
        sm == IF r.ret[1] = "NewDefaultAdapter"
              THEN [r.sm EXCEPT !.default_adapter = r.ret[2]]
              ELSE r.sm
        notifs == IF r.ret[1] = "NewDefaultAdapter"
                  THEN << <<"default_adapter_change", r.ret[2], FALSE>> >>
                  ELSE << >>
    IN  [sm |-> sm, ct |-> CT,
         turn |-> Turn(m, "Off", "Off", r.ret[1], << >>, notifs)]

\* The outcomes of tokio::fs::read(path) and the parse of the body.
PidFileRead == {"unreadable", "pid", "unparsable"}
PidOfRead(read) == IF read = "pid" THEN DaemonPid ELSE 0

\* The message the PidChange handler sends on, NoMsg when it sends none.
OnPidChange(m, read) ==
    LET hci == HciIndexOfName[m.name]
    IN  CASE m.mask = "CREATE" /\ m.name # NoName ->
               IF hci # NoHci /\ read # "unreadable"
               THEN BluetoothStarted(PidOfRead(read), hci)
               ELSE NoMsg
          [] m.mask = "DELETE" /\ m.name # NoName ->
               IF hci # NoHci THEN BluetoothStopped(hci) ELSE NoMsg
          [] OTHER -> NoMsg

(***************************************************************************)
(* Spec: the state machine, the command timeout and the timer task under   *)
(* every order of messages.  A producer that is no part of the state (a    *)
(* proxy caller, the hci listener, the pid watcher) may send any message   *)
(* at any time, and nothing in the state machine depends on when a message *)
(* was sent, only on when it is received: the send and the receive of such *)
(* a message are one action, taken when mainloop is at rx.recv().  rx      *)
(* holds the messages whose senders are part of the state: the timer task  *)
(* (CommandTimeout) and mainloop itself (BluetoothStarted and              *)
(* BluetoothStopped, forwarded by the PidChange handler).  A received      *)
(* external message stands for one sent before the messages still in rx.   *)
(* Spec does not record turns.                                             *)
(***************************************************************************)
AtRecv == loop_pc = "recv"
Receiving == AtRecv /\ rx # << >>

\* tx.send_timeout of a task other than mainloop: completes once the
\* channel has room.
Send(m) ==
    /\ Running
    /\ Len(rx) < MaxQueue
    /\ rx' = Append(rx, m)

\* StateMachineProxy::start_bluetooth, start_hci_if_floss_enabled
RecvStartBluetooth ==
    /\ AtRecv
    /\ \E hci \in DaemonHCIs : Commit(OnStartBluetooth(StartBluetooth(hci)))
    /\ UNCHANGED <<rx, loop_vars, timer_vars, env_vars>>

\* StateMachineProxy::stop_bluetooth
RecvStopBluetooth ==
    /\ AtRecv
    /\ \E hci \in DaemonHCIs : Commit(OnStopBluetooth(StopBluetooth(hci)))
    /\ UNCHANGED <<rx, loop_vars, timer_vars, env_vars>>

\* StateMachineProxy::set_desired_default_adapter
RecvSetDesiredDefaultAdapter ==
    /\ AtRecv
    /\ \E hci \in HCIs :
          Commit(OnSetDesiredDefaultAdapter(SetDesiredDefaultAdapter(hci)))
    /\ UNCHANGED <<rx, loop_vars, timer_vars, env_vars>>

\* configure_hci: a ReadIndexList entry or IndexAdded (present), IndexRemoved
\* with the device still gone after the debounce (absent).
RecvHciDevicePresence ==
    /\ AtRecv
    /\ \E hci \in HCIs, present \in BOOLEAN :
          Commit(OnHciDevicePresence(HciDevicePresence(hci, present)))
    /\ UNCHANGED <<rx, loop_vars, timer_vars, env_vars>>

\* configure_pid: a listed pid file or an inotify event.  With a message to
\* forward, mainloop goes on to send_timeout.
RecvPidChange ==
    /\ AtRecv
    /\ \E mask \in {"CREATE", "DELETE", "OTHER"},
          name \in PidDirNames \cup {NoName}, read \in PidFileRead :
          LET fwd == OnPidChange(PidChange(mask, name), read)
          IN  IF fwd = NoMsg
              THEN UNCHANGED <<loop_pc, loop_msg>>
              ELSE loop_pc' = "send" /\ loop_msg' = fwd
    /\ UNCHANGED <<sm_vars, ct_vars, rx, turn, timer_vars, env_vars>>

\* A client of the manager went away.
RecvCallbackDisconnected ==
    /\ AtRecv
    /\ Commit(OnCallbackDisconnected(CallbackDisconnected(0)))
    /\ UNCHANGED <<rx, loop_vars, timer_vars, env_vars>>

RecvBluetoothStarted ==
    /\ Receiving
    /\ Head(rx).kind = "BluetoothStarted"
    /\ Commit(OnBluetoothStarted(Head(rx)))
    /\ rx' = Tail(rx)
    /\ UNCHANGED <<loop_vars, timer_vars, env_vars>>

RecvBluetoothStopped ==
    /\ Receiving
    /\ Head(rx).kind = "BluetoothStopped"
    /\ Commit(OnBluetoothStopped(Head(rx)))
    /\ rx' = Tail(rx)
    /\ UNCHANGED <<loop_vars, timer_vars, env_vars>>

RecvCommandTimeout ==
    /\ Receiving
    /\ Head(rx).kind = "CommandTimeout"
    /\ Commit(OnCommandTimeout(Head(rx)))
    /\ rx' = Tail(rx)
    /\ UNCHANGED <<loop_vars, timer_vars, env_vars>>

\* context.tx.send_timeout(..) of the PidChange handler finds room.
LoopSend ==
    /\ loop_pc = "send"
    /\ Len(rx) < MaxQueue
    /\ rx' = Append(rx, loop_msg)
    /\ loop_pc' = "recv"
    /\ loop_msg' = NoMsg
    /\ UNCHANGED <<sm_vars, ct_vars, turn, timer_vars, env_vars>>

\* The channel is full and its only consumer is the sender itself:
\* send_timeout elapses and unwrap() panics.
LoopSendTimeout ==
    /\ loop_pc = "send"
    /\ Len(rx) >= MaxQueue
    /\ loop_pc' = "panicked"
    /\ UNCHANGED <<sm_vars, ct_vars, rx, loop_msg, turn, timer_vars, env_vars>>

\* StateMachineProxy::set_floss_enabled
ProxySetFlossEnabled ==
    /\ Running
    /\ floss_enabled' = ~floss_enabled
    /\ UNCHANGED <<state, default_adapter, desired_adapter, ct_vars, rx,
                   loop_vars, timer_vars, env_vars>>

\* StateMachineProxy::modify_state, used to set config_enabled.
ProxyModifyState ==
    /\ Running
    /\ \E hci \in DaemonHCIs, enabled \in BOOLEAN :
          state' = modify_state(SM, hci, [config_enabled |-> enabled]).state
    /\ state' # state
    /\ UNCHANGED <<floss_enabled, default_adapter, desired_adapter, ct_vars, rx,
                   loop_vars, timer_vars, env_vars>>

(***************************************************************************)
(* Time and the timer task.                                                *)
(***************************************************************************)
Tick ==
    /\ Running
    /\ per_hci_timeout' = [h \in DOMAIN per_hci_timeout |->
                              IF per_hci_timeout[h] >= 0
                              THEN per_hci_timeout[h] - 1 ELSE -1]
    /\ waker' = IF waker > 0 THEN waker - 1 ELSE waker
    /\ <<per_hci_timeout', waker'>> # <<per_hci_timeout, waker>>
    /\ UNCHANGED <<sm_vars, expired, rx, loop_pc, loop_msg, timer_vars, env_vars>>

ClockTick == Tick /\ UNCHANGED turn

\* timer.expired().await returns, then expire() under the lock.  The order
\* of `completed` is the HashMap's iteration order.
TimerExpire ==
    /\ Running
    /\ timer_pc = "wait"
    /\ waker = 0
    /\ LET ct == expire(CT)
           done == expire_completed(CT)
       IN  /\ per_hci_timeout' = ct.per_hci_timeout
           /\ expired' = ct.expired
           /\ waker' = ct.waker
           /\ \E order \in [1..Cardinality(done) -> done] :
                 /\ \A i, j \in 1..Cardinality(done) : i # j => order[i] # order[j]
                 /\ completed' = order
           /\ timer_pc' = IF done = {} THEN "wait" ELSE "send"
    /\ UNCHANGED <<sm_vars, rx, loop_vars, env_vars>>

\* timeout_tx.send_timeout(Message::CommandTimeout(hci))
TimerSend ==
    /\ timer_pc = "send"
    /\ Send(CommandTimeoutMsg(Head(completed)))
    /\ completed' = Tail(completed)
    /\ timer_pc' = IF Tail(completed) = << >> THEN "wait" ELSE "send"
    /\ UNCHANGED <<sm_vars, ct_vars, loop_vars, env_vars>>

Next ==
    \/ RecvStartBluetooth
    \/ RecvStopBluetooth
    \/ RecvSetDesiredDefaultAdapter
    \/ RecvHciDevicePresence
    \/ RecvPidChange
    \/ RecvCallbackDisconnected
    \/ RecvBluetoothStarted
    \/ RecvBluetoothStopped
    \/ RecvCommandTimeout
    \/ LoopSend
    \/ LoopSendTimeout
    \/ ProxySetFlossEnabled
    \/ ProxyModifyState
    \/ ClockTick
    \/ TimerExpire
    \/ TimerSend

Spec == Init /\ [][Next]_vars

(***************************************************************************)
(* SpecTurn: mainloop handling one message after the other, each recorded  *)
(* in `turn`.  Any message may arrive in any state (every holder of the    *)
(* channel's sender can send every Message); time does not pass.  Every    *)
(* step writes `turn`, so a step whose turn'.kind is K is a step of the    *)
(* handler of K.                                                           *)
(***************************************************************************)
\* Commits the outcome of a handler and records its turn.
TakeTurn(o) ==
    /\ Commit(o)
    /\ turn' = o.turn
    /\ UNCHANGED <<rx, loop_pc, loop_msg, timer_vars, env_vars>>

TurnStartBluetooth ==
    \E hci \in DaemonHCIs : TakeTurn(OnStartBluetooth(StartBluetooth(hci)))

TurnStopBluetooth ==
    \E hci \in DaemonHCIs : TakeTurn(OnStopBluetooth(StopBluetooth(hci)))

TurnBluetoothStarted ==
    \E hci \in DaemonHCIs, pid \in Pids :
        TakeTurn(OnBluetoothStarted(BluetoothStarted(pid, hci)))

TurnBluetoothStopped ==
    \E hci \in DaemonHCIs : TakeTurn(OnBluetoothStopped(BluetoothStopped(hci)))

TurnHciDevicePresence ==
    \E hci \in HCIs, present \in BOOLEAN :
        TakeTurn(OnHciDevicePresence(HciDevicePresence(hci, present)))

TurnCommandTimeout ==
    \E hci \in DaemonHCIs : TakeTurn(OnCommandTimeout(CommandTimeoutMsg(hci)))

TurnSetDesiredDefaultAdapter ==
    \E hci \in HCIs :
        TakeTurn(OnSetDesiredDefaultAdapter(SetDesiredDefaultAdapter(hci)))

\* StateMachineProxy::modify_state between two turns.
TurnModifyState ==
    /\ \E hci \in DaemonHCIs, enabled \in BOOLEAN :
          /\ state' = modify_state(SM, hci, [config_enabled |-> enabled]).state
          /\ turn' = [NoTurn EXCEPT !.kind = "modify_state", !.hci = hci]
    /\ UNCHANGED <<floss_enabled, default_adapter, desired_adapter, ct_vars, rx,
                   loop_pc, loop_msg, timer_vars, env_vars>>

\* StateMachineProxy::set_floss_enabled between two turns.
TurnSetFlossEnabled ==
    /\ floss_enabled' = ~floss_enabled
    /\ turn' = [NoTurn EXCEPT !.kind = "set_floss_enabled"]
    /\ UNCHANGED <<state, default_adapter, desired_adapter, ct_vars, rx,
                   loop_pc, loop_msg, timer_vars, env_vars>>

\* Time passing between two turns.
TurnTick ==
    /\ Tick
    /\ turn' = [NoTurn EXCEPT !.kind = "tick"]

NextTurn ==
    \/ TurnStartBluetooth
    \/ TurnStopBluetooth
    \/ TurnBluetoothStarted
    \/ TurnBluetoothStopped
    \/ TurnHciDevicePresence
    \/ TurnCommandTimeout
    \/ TurnSetDesiredDefaultAdapter
    \/ TurnModifyState
    \/ TurnSetFlossEnabled
    \/ TurnTick

SpecTurn == Init /\ [][NextTurn]_vars

(***************************************************************************)
(* SpecRun: mainloop with its timer task.  The messages of the other       *)
(* senders arrive in any state, as in SpecTurn; a CommandTimeout arrives   *)
(* only when the timer task has sent it.  Every turn of mainloop is        *)
(* recorded in `turn` together with the run it continues; the steps of the *)
(* timer task and of the clock leave `turn` alone.                         *)
(***************************************************************************)
\* The run after turn t, taken in the current state.
Advance(t) ==
    LET h == t.hci
        r == turn.run
        same == r.hci = h
        pre == get_process_state(SM, h)
        enabled == floss_enabled /\ get_config_enabled(SM, h)
    IN  [hci |-> h,
         seq |-> CASE /\ t.kind = "StartBluetooth" /\ pre = "Off"
                      /\ get_present(SM, h) /\ floss_enabled -> 1
                   [] t.kind = "BluetoothStarted" /\ same /\ r.seq = 1 -> 2
                   [] t.kind = "StopBluetooth" /\ same /\ r.seq = 2 -> 3
                   [] t.kind = "BluetoothStopped" /\ same /\ r.seq = 3 -> 4
                   [] OTHER -> 0,
         stops |-> IF t.kind # "BluetoothStopped" THEN 0
                   ELSE IF same /\ r.stops \in 1..RESET_ON_RESTART_COUNT
                        THEN r.stops + 1
                   ELSE IF pre = "On" /\ enabled THEN 1 ELSE 0,
         timeouts |-> IF ~(t.kind = "CommandTimeout" /\ pre = "TurningOn" /\ enabled)
                      THEN 0
                      ELSE IF same /\ r.timeouts \in 1..RESET_ON_RESTART_COUNT
                           THEN r.timeouts + 1
                      ELSE 1,
         presents |-> IF ~(t.kind = "HciDevicePresence" /\ t.msg.present) THEN 0
                      ELSE IF same /\ r.presents >= 1 THEN 2
                      ELSE 1,
         queued |-> /\ t.kind # "CommandTimeout"
                    /\ rx # << >>
                    /\ Head(rx) = CommandTimeoutMsg(h),
         started |-> {}]

\* Commits the outcome of a handler and records its turn and its run.
TakeRun(o) ==
    /\ Commit(o)
    /\ turn' = [o.turn EXCEPT !.run = Advance(o.turn)]
    /\ UNCHANGED <<loop_pc, loop_msg, timer_vars, env_vars>>

RunStartBluetooth ==
    /\ \E hci \in DaemonHCIs : TakeRun(OnStartBluetooth(StartBluetooth(hci)))
    /\ UNCHANGED rx

RunStopBluetooth ==
    /\ \E hci \in DaemonHCIs : TakeRun(OnStopBluetooth(StopBluetooth(hci)))
    /\ UNCHANGED rx

RunBluetoothStarted ==
    /\ \E hci \in DaemonHCIs, pid \in Pids :
          TakeRun(OnBluetoothStarted(BluetoothStarted(pid, hci)))
    /\ UNCHANGED rx

RunBluetoothStopped ==
    /\ \E hci \in DaemonHCIs : TakeRun(OnBluetoothStopped(BluetoothStopped(hci)))
    /\ UNCHANGED rx

RunHciDevicePresence ==
    /\ \E hci \in HCIs, present \in BOOLEAN :
          TakeRun(OnHciDevicePresence(HciDevicePresence(hci, present)))
    /\ UNCHANGED rx

RunSetDesiredDefaultAdapter ==
    /\ \E hci \in HCIs :
          TakeRun(OnSetDesiredDefaultAdapter(SetDesiredDefaultAdapter(hci)))
    /\ UNCHANGED rx

\* The CommandTimeout the timer task sent is received and handled.
RunCommandTimeout ==
    /\ rx # << >>
    /\ Head(rx).kind = "CommandTimeout"
    /\ TakeRun(OnCommandTimeout(Head(rx)))
    /\ rx' = Tail(rx)

\* StateMachineProxy::modify_state between two turns.
RunModifyState ==
    /\ \E hci \in DaemonHCIs, enabled \in BOOLEAN :
          /\ state' = modify_state(SM, hci, [config_enabled |-> enabled]).state
          /\ turn' = [NoTurn EXCEPT !.kind = "modify_state", !.hci = hci]
    /\ UNCHANGED <<floss_enabled, default_adapter, desired_adapter, ct_vars, rx,
                   loop_pc, loop_msg, timer_vars, env_vars>>

\* StateMachineProxy::set_floss_enabled between two turns.
RunSetFlossEnabled ==
    /\ floss_enabled' = ~floss_enabled
    /\ turn' = [NoTurn EXCEPT !.kind = "set_floss_enabled"]
    /\ UNCHANGED <<state, default_adapter, desired_adapter, ct_vars, rx,
                   loop_pc, loop_msg, timer_vars, env_vars>>

\* timeout_tx.send_timeout(Message::CommandTimeout(hci))
RunTimerSend ==
    /\ timer_pc = "send"
    /\ Len(rx) < MaxRunQueue
    /\ rx' = Append(rx, CommandTimeoutMsg(Head(completed)))
    /\ completed' = Tail(completed)
    /\ timer_pc' = IF Tail(completed) = << >> THEN "wait" ELSE "send"
    /\ UNCHANGED <<sm_vars, ct_vars, loop_vars, env_vars>>

NextRun ==
    \/ RunStartBluetooth
    \/ RunStopBluetooth
    \/ RunBluetoothStarted
    \/ RunBluetoothStopped
    \/ RunHciDevicePresence
    \/ RunSetDesiredDefaultAdapter
    \/ RunCommandTimeout
    \/ RunModifyState
    \/ RunSetFlossEnabled
    \/ ClockTick
    \/ TimerExpire
    \/ RunTimerSend

SpecRun == Init /\ [][NextRun]_vars

(***************************************************************************)
(* SpecDefault: the choice of the default adapter among the adapters       *)
(* 0..MaxAdapter.  mainloop handles HciDevicePresence and                  *)
(* SetDesiredDefaultAdapter messages for any of them, one per step and     *)
(* recorded in `turn` as in SpecTurn; the proxy sets config_enabled and    *)
(* floss_enabled in between, so that an adapter that appears may be        *)
(* started.                                                                *)
(***************************************************************************)
AdapterHCIs == 0..MaxAdapter

DefaultHciDevicePresence ==
    \E hci \in AdapterHCIs, present \in BOOLEAN :
        TakeTurn(OnHciDevicePresence(HciDevicePresence(hci, present)))

DefaultSetDesiredDefaultAdapter ==
    \E hci \in AdapterHCIs :
        TakeTurn(OnSetDesiredDefaultAdapter(SetDesiredDefaultAdapter(hci)))

NextDefault ==
    \/ DefaultHciDevicePresence
    \/ DefaultSetDesiredDefaultAdapter
    \/ TurnModifyState
    \/ TurnSetFlossEnabled

SpecDefault == Init /\ [][NextDefault]_vars

(***************************************************************************)
(* SpecFrame: every adapter of 0..MaxHci has a daemon.  mainloop handles   *)
(* the six per-adapter messages for any of them, one per step and recorded *)
(* in `turn`; the proxy sets config_enabled in between.  floss_enabled     *)
(* stays what it was at construction and time does not pass.               *)
(***************************************************************************)
FrameStartBluetooth ==
    \E hci \in HCIs : TakeTurn(OnStartBluetooth(StartBluetooth(hci)))

FrameStopBluetooth ==
    \E hci \in HCIs : TakeTurn(OnStopBluetooth(StopBluetooth(hci)))

FrameBluetoothStarted ==
    \E hci \in HCIs :
        TakeTurn(OnBluetoothStarted(BluetoothStarted(DaemonPid, hci)))

FrameBluetoothStopped ==
    \E hci \in HCIs : TakeTurn(OnBluetoothStopped(BluetoothStopped(hci)))

FrameHciDevicePresence ==
    \E hci \in HCIs, present \in BOOLEAN :
        TakeTurn(OnHciDevicePresence(HciDevicePresence(hci, present)))

FrameCommandTimeout ==
    \E hci \in HCIs : TakeTurn(OnCommandTimeout(CommandTimeoutMsg(hci)))

FrameModifyState ==
    /\ \E hci \in HCIs, enabled \in BOOLEAN :
          /\ state' = modify_state(SM, hci, [config_enabled |-> enabled]).state
          /\ turn' = [NoTurn EXCEPT !.kind = "modify_state", !.hci = hci]
    /\ UNCHANGED <<floss_enabled, default_adapter, desired_adapter, ct_vars, rx,
                   loop_pc, loop_msg, timer_vars, env_vars>>

NextFrame ==
    \/ FrameStartBluetooth
    \/ FrameStopBluetooth
    \/ FrameBluetoothStarted
    \/ FrameBluetoothStopped
    \/ FrameHciDevicePresence
    \/ FrameCommandTimeout
    \/ FrameModifyState

SpecFrame == Init /\ [][NextFrame]_vars

(***************************************************************************)
(* SpecDaemon: SpecTurn without the clock, with the daemons that were      *)
(* started and not stopped since kept in turn.run.started.                 *)
(***************************************************************************)
\* The started daemons after the commands cmds, given in this order, when S
\* were started before.
RECURSIVE StartedAfter(_, _)
StartedAfter(S, cmds) ==
    IF cmds = << >> THEN S
    ELSE LET c == Head(cmds)
         IN  StartedAfter(CASE c[1] = "Start" -> S \cup {c[2]}
                            [] c[1] = "Stop" -> S \ {c[2]}
                            [] OTHER -> S,
                          Tail(cmds))

\* The started daemons when the handler of turn t begins: a BluetoothStopped
\* message says that the daemon of its hci is gone.
StartedBefore(t) ==
    IF t.kind = "BluetoothStopped" THEN turn.run.started \ {t.hci}
    ELSE turn.run.started

TakeDaemon(o) ==
    /\ Commit(o)
    /\ turn' = [o.turn EXCEPT !.run.started =
                    StartedAfter(StartedBefore(o.turn), o.turn.cmds)]
    /\ UNCHANGED <<rx, loop_pc, loop_msg, timer_vars, env_vars>>

DaemonStartBluetooth ==
    \E hci \in DaemonHCIs : TakeDaemon(OnStartBluetooth(StartBluetooth(hci)))

DaemonStopBluetooth ==
    \E hci \in DaemonHCIs : TakeDaemon(OnStopBluetooth(StopBluetooth(hci)))

DaemonBluetoothStarted ==
    \E hci \in DaemonHCIs, pid \in Pids :
        TakeDaemon(OnBluetoothStarted(BluetoothStarted(pid, hci)))

DaemonBluetoothStopped ==
    \E hci \in DaemonHCIs : TakeDaemon(OnBluetoothStopped(BluetoothStopped(hci)))

DaemonHciDevicePresence ==
    \E hci \in HCIs, present \in BOOLEAN :
        TakeDaemon(OnHciDevicePresence(HciDevicePresence(hci, present)))

DaemonCommandTimeout ==
    \E hci \in DaemonHCIs : TakeDaemon(OnCommandTimeout(CommandTimeoutMsg(hci)))

DaemonModifyState ==
    /\ \E hci \in DaemonHCIs, enabled \in BOOLEAN :
          /\ state' = modify_state(SM, hci, [config_enabled |-> enabled]).state
          /\ turn' = [NoTurn EXCEPT !.kind = "modify_state", !.hci = hci,
                                    !.run.started = turn.run.started]
    /\ UNCHANGED <<floss_enabled, default_adapter, desired_adapter, ct_vars, rx,
                   loop_pc, loop_msg, timer_vars, env_vars>>

DaemonSetFlossEnabled ==
    /\ floss_enabled' = ~floss_enabled
    /\ turn' = [NoTurn EXCEPT !.kind = "set_floss_enabled",
                              !.run.started = turn.run.started]
    /\ UNCHANGED <<state, default_adapter, desired_adapter, ct_vars, rx,
                   loop_pc, loop_msg, timer_vars, env_vars>>

NextDaemon ==
    \/ DaemonStartBluetooth
    \/ DaemonStopBluetooth
    \/ DaemonBluetoothStarted
    \/ DaemonBluetoothStopped
    \/ DaemonHciDevicePresence
    \/ DaemonCommandTimeout
    \/ DaemonModifyState
    \/ DaemonSetFlossEnabled

SpecDaemon == Init /\ [][NextDaemon]_vars

(***************************************************************************)
(* SpecEnv: the producers of the channel that are tasks of their own, and  *)
(* mainloop receiving what they send.                                      *)
(*   - The kernel adds and removes hci devices and reports IndexAdded and  *)
(*     IndexRemoved on the management socket; it also reports them for a   *)
(*     device that stays, when a user channel takes or gives up exclusive  *)
(*     access.                                                             *)
(*   - The task of configure_hci reads the events in order: it sends       *)
(*     HciDevicePresence(hci, true) for IndexAdded and spawns a debounce   *)
(*     task for IndexRemoved.                                              *)
(*   - StateMachineProxy::start_bluetooth and stop_bluetooth each spawn a  *)
(*     task that sends the message.                                        *)
(* `spawned` is the bag of the spawned tasks that have not finished; the   *)
(* runtime runs them in any order.  A send waits until the channel has     *)
(* room.                                                                   *)
(***************************************************************************)
IndexAdded(hci) == [ev |-> "IndexAdded", hci |-> hci]
IndexRemoved(hci) == [ev |-> "IndexRemoved", hci |-> hci]

\* The task spawned for IndexRemoved(hci): asleep for
\* INDEX_REMOVED_DEBOUNCE_TIME, or inside send_timeout.  `exists` is what
\* check_hci_device_exists returned.
DebounceTask(hci, pc, exists) ==
    [task |-> "debounce", hci |-> hci, pc |-> pc, exists |-> exists]
\* The task spawned by start_bluetooth (kind StartBluetooth) or
\* stop_bluetooth (kind StopBluetooth).
SendTask(kind, hci) ==
    [task |-> kind, hci |-> hci, pc |-> "send", exists |-> FALSE]

Tasks == BagToSet(spawned)
Spawn(t) == spawned (+) SetToBag({t})
Finish(t) == spawned (-) SetToBag({t})
InFlight(kind, hci) ==
    \/ \E t \in Tasks : t.task = kind /\ t.hci = hci
    \/ \E i \in DOMAIN rx : rx[i].kind = kind /\ rx[i].hci = hci

\* `if !config_util::check_hci_device_exists(hci)`
presence_lost_always(exists) ==
    TRUE

presence_lost(exists) ==
    ~exists

\* A device appears or disappears.
KernelIndexChange ==
    /\ Len(mgmt) < MaxMgmt
    /\ \E hci \in HCIs :
          IF hci \in hci_dev
          THEN /\ hci_dev' = hci_dev \ {hci}
               /\ mgmt' = Append(mgmt, IndexRemoved(hci))
          ELSE /\ hci_dev' = hci_dev \cup {hci}
               /\ mgmt' = Append(mgmt, IndexAdded(hci))
    /\ UNCHANGED <<sm_vars, ct_vars, rx, loop_vars, timer_vars, pid_vars, spawned>>

\* A user channel takes (IndexRemoved) or gives up (IndexAdded) exclusive
\* access to a device, which stays.
KernelUserChannel ==
    /\ Len(mgmt) < MaxMgmt
    /\ \E hci \in hci_dev :
          \/ mgmt' = Append(mgmt, IndexRemoved(hci))
          \/ mgmt' = Append(mgmt, IndexAdded(hci))
    /\ UNCHANGED <<sm_vars, ct_vars, rx, loop_vars, timer_vars, pid_vars, hci_dev,
                   spawned>>

\* MgmtEvent::IndexAdded(hci)
HciIndexAdded ==
    /\ mgmt # << >>
    /\ Head(mgmt).ev = "IndexAdded"
    /\ Send(HciDevicePresence(Head(mgmt).hci, TRUE))
    /\ mgmt' = Tail(mgmt)
    /\ UNCHANGED <<sm_vars, ct_vars, loop_vars, timer_vars, pid_vars, hci_dev, spawned>>

\* MgmtEvent::IndexRemoved(hci)
HciIndexRemoved ==
    /\ mgmt # << >>
    /\ Head(mgmt).ev = "IndexRemoved"
    /\ BagCardinality(spawned) < MaxTasks
    /\ spawned' = Spawn(DebounceTask(Head(mgmt).hci, "sleep", FALSE))
    /\ mgmt' = Tail(mgmt)
    /\ UNCHANGED <<sm_vars, ct_vars, rx, loop_vars, timer_vars, pid_vars, hci_dev>>

\* The debounce task wakes up and checks the device: with the device gone
\* it sends HciDevicePresence(hci, false), at once when the channel has
\* room; with the device there it ends.
DebounceCheck ==
    \E t \in Tasks :
        /\ t.task = "debounce" /\ t.pc = "sleep"
        /\ LET exists == t.hci \in hci_dev
           IN  IF presence_lost(exists)
               THEN IF Len(rx) < MaxQueue
                    THEN /\ Send(HciDevicePresence(t.hci, FALSE))
                         /\ spawned' = Finish(t)
                    ELSE /\ spawned' = Finish(t) (+)
                               SetToBag({DebounceTask(t.hci, "send", exists)})
                         /\ UNCHANGED rx
               ELSE /\ spawned' = Finish(t)
                    /\ UNCHANGED rx
        /\ UNCHANGED <<sm_vars, ct_vars, loop_vars, timer_vars, pid_vars, hci_dev, mgmt>>

\* The send_timeout of a debounce task gets room.
DebounceSend ==
    \E t \in Tasks :
        /\ t.task = "debounce" /\ t.pc = "send"
        /\ Send(HciDevicePresence(t.hci, FALSE))
        /\ spawned' = Finish(t)
        /\ UNCHANGED <<sm_vars, ct_vars, loop_vars, timer_vars, pid_vars, hci_dev, mgmt>>

\* A caller calls start_bluetooth(hci) and then stop_bluetooth(hci); each
\* call spawns its task and returns.  The caller waits with the next pair
\* until mainloop has handled both messages.
ProxyStartThenStop ==
    /\ BagCardinality(spawned) + 2 <= MaxTasks
    /\ \E hci \in DaemonHCIs :
          /\ ~InFlight("StartBluetooth", hci)
          /\ ~InFlight("StopBluetooth", hci)
          /\ spawned' = spawned (+) SetToBag({SendTask("StartBluetooth", hci),
                                              SendTask("StopBluetooth", hci)})
    /\ UNCHANGED <<sm_vars, ct_vars, rx, loop_vars, timer_vars, pid_vars, hci_dev, mgmt>>

\* tx.send(..).await of a task spawned by the proxy.
ProxyTaskSend ==
    \E t \in Tasks :
        /\ t.task \in {"StartBluetooth", "StopBluetooth"}
        /\ Send(IF t.task = "StartBluetooth" THEN StartBluetooth(t.hci)
                   ELSE StopBluetooth(t.hci))
        /\ spawned' = Finish(t)
        /\ UNCHANGED <<sm_vars, ct_vars, loop_vars, timer_vars, pid_vars, hci_dev, mgmt>>

\* mainloop: rx.recv() and the handler of the message.
EnvRecv(o) ==
    /\ Commit(o)
    /\ turn' = o.turn
    /\ rx' = Tail(rx)
    /\ UNCHANGED <<loop_pc, loop_msg, timer_vars, env_vars>>

EnvRecvStartBluetooth ==
    /\ rx # << >> /\ Head(rx).kind = "StartBluetooth"
    /\ EnvRecv(OnStartBluetooth(Head(rx)))

EnvRecvStopBluetooth ==
    /\ rx # << >> /\ Head(rx).kind = "StopBluetooth"
    /\ EnvRecv(OnStopBluetooth(Head(rx)))

EnvRecvHciDevicePresence ==
    /\ rx # << >> /\ Head(rx).kind = "HciDevicePresence"
    /\ EnvRecv(OnHciDevicePresence(Head(rx)))

NextEnv ==
    \/ KernelIndexChange
    \/ KernelUserChannel
    \/ HciIndexAdded
    \/ HciIndexRemoved
    \/ DebounceCheck
    \/ DebounceSend
    \/ ProxyStartThenStop
    \/ ProxyTaskSend
    \/ EnvRecvStartBluetooth
    \/ EnvRecvStopBluetooth
    \/ EnvRecvHciDevicePresence

SpecEnv == Init /\ [][NextEnv]_vars

(***************************************************************************)
(* SpecParse: get_hci_index_from_pid_path applied to a path.  The paths    *)
(* are made of an optional prefix, "bluetooth", a run of digits, one       *)
(* character where the file name has its dot, "pid" and an optional        *)
(* suffix.  `turn` records the path and the result.                        *)
(***************************************************************************)
PathPrefixes == {<< >>, <<"/">>, <<"m", "y">>}
PathDigits == {<< >>, <<"0">>, <<"1">>, <<"1", "0">>, <<"0", "0", "7">>,
               <<"2", "1", "4", "7", "4", "8", "3", "6", "4", "7">>,
               <<"2", "1", "4", "7", "4", "8", "3", "6", "4", "8">>,
               <<"1", "a">>}
PathDots == {<<".">>, <<"x">>, <<"\n">>, << >>}
PathSuffixes == {<< >>, <<".", "b", "a", "k">>}
Paths ==
    {pre \o BluetoothLit \o ds \o dot \o PidLit \o suf :
        pre \in PathPrefixes, ds \in PathDigits, dot \in PathDots,
        suf \in PathSuffixes}
    \cup {GarbageName, NoName}

ParsePath ==
    /\ \E path \in Paths :
          turn' = [NoTurn EXCEPT !.kind = "parse",
                                 !.msg = PidChange("CREATE", path),
                                 !.hci = get_hci_index_from_pid_path(path)]
    /\ UNCHANGED <<sm_vars, ct_vars, rx, loop_pc, loop_msg, timer_vars, env_vars>>

NextParse ==
    \/ ParsePath

SpecParse == Init /\ [][NextParse]_vars


(***************************************************************************)
(* Properties.                                                             *)
(***************************************************************************)
Turning == {"TurningOn", "TurningOff"}
Present == {h \in DOMAIN state : state[h].present}
Lowest(S) == CHOOSE h \in S : \A g \in S : h <= g
TimerUnchanged ==
    /\ per_hci_timeout' = per_hci_timeout
    /\ expired' = expired
    /\ waker' = waker

\* C1: between two turns of mainloop, every adapter in TurningOn or
\* TurningOff has an entry in per_hci_timeout.
C1_TurningHasTimer ==
    AtRecv => \A h \in DOMAIN state :
                 state[h].state \in Turning => h \in DOMAIN per_hci_timeout

\* C2: between two turns of mainloop, every adapter in Off or On has no
\* entry in per_hci_timeout, whatever the timer task and the other senders do.
C2_IdleHasNoTimer ==
    AtRecv => \A h \in DOMAIN per_hci_timeout :
                 get_process_state(SM, h) \in Turning

\* C3: restart_count of every adapter stays within 0..RESET_ON_RESTART_COUNT.
C3_RestartCountInRange ==
    \A h \in DOMAIN state :
        state[h].restart_count \in 0..RESET_ON_RESTART_COUNT

\* An adapter retrying its start with the count at the limit.
C3_Witness ==
    \E h \in DOMAIN state :
        /\ state[h].restart_count = RESET_ON_RESTART_COUNT
        /\ state[h].state = "TurningOn"

\* C4: after the BluetoothStarted handler, whatever the adapter was before
\* (any state, or not in the table), the adapter is On with restart_count 0
\* and the pid of the message, CancelTimer was returned and no timer entry
\* is left.
C4_DaemonStarted ==
    turn.kind = "BluetoothStarted" =>
        /\ turn.hci \in DOMAIN state
        /\ state[turn.hci].state = "On"
        /\ state[turn.hci].restart_count = 0
        /\ state[turn.hci].pid = turn.msg.pid
        /\ turn.ret = "CancelTimer"
        /\ turn.hci \notin DOMAIN per_hci_timeout

\* A daemon reported started for an hci that was not in the table.
C4_Witness ==
    /\ turn.kind = "BluetoothStarted"
    /\ ~turn.known
    /\ turn.msg.pid = DaemonPid
    /\ state[turn.hci].state = "On"

\* C5: between two turns, if the desired adapter is present then it is the
\* default adapter.
C5_DesiredPresentIsDefault ==
    AtRecv => (get_present(SM, desired_adapter) => default_adapter = desired_adapter)

\* All adapters present, the desired one is not the lowest and is the default.
C5_Witness ==
    /\ AtRecv
    /\ Present = HCIs
    /\ desired_adapter # Lowest(Present)
    /\ default_adapter = desired_adapter

\* C6: the default adapter is the desired adapter when that one is present,
\* or the lowest present hci, or anything when no adapter is present.
C6_DefaultAdapterChoice ==
    \/ desired_adapter \in Present /\ default_adapter = desired_adapter
    \/ Present # {} /\ default_adapter = Lowest(Present)
    \/ Present = {}

C8_StartBluetoothRefused ==
    [][(/\ turn'.kind = "StartBluetooth"
        /\ (~get_present(SM, turn'.hci) \/ ~floss_enabled))
       => (/\ state' = state
           /\ (get_process_state(SM, turn'.hci) = "Off"
                  => get_process_state([SM EXCEPT !.state = state'], turn'.hci) = "Off")
           /\ turn'.cmds = << >>
           /\ turn'.ret = "DoNothing"
           /\ TimerUnchanged)]_vars

\* StartBluetooth for a present adapter that is Off while floss is disabled.
C8_Witness ==
    /\ turn.kind = "StartBluetooth"
    /\ turn.ret = "DoNothing"
    /\ turn.prev_state = "Off"
    /\ get_present(SM, turn.hci)
    /\ ~floss_enabled
    /\ state[turn.hci].state = "Off"

\* C9: a StopBluetooth turn on a known adapter: from On it leaves TurningOff,
\* gives Stop, returns ResetTimer and sets the timer; from TurningOn it
\* leaves Off, gives Stop, returns CancelTimer and removes the timer.
C9_StopBluetooth ==
    [][(turn'.kind = "StopBluetooth" /\ is_known(SM, turn'.hci))
       => LET h == turn'.hci
          IN  /\ state[h].state = "On" =>
                    /\ state'[h].state = "TurningOff"
                    /\ turn'.cmds = << <<"Stop", h>> >>
                    /\ turn'.ret = "ResetTimer"
                    /\ h \in DOMAIN per_hci_timeout'
                    /\ per_hci_timeout'[h] = TimeoutTicks
              /\ state[h].state = "TurningOn" =>
                    /\ state'[h].state = "Off"
                    /\ turn'.cmds = << <<"Stop", h>> >>
                    /\ turn'.ret = "CancelTimer"
                    /\ h \notin DOMAIN per_hci_timeout']_vars

\* A stop that interrupted a start.
C9_Witness ==
    /\ turn.kind = "StopBluetooth"
    /\ turn.prev_state = "TurningOn"
    /\ turn.ret = "CancelTimer"
    /\ state[turn.hci].state = "Off"

\* C10: a StopBluetooth turn for an hci that is not in the table, or is Off
\* or TurningOff, changes nothing: no entry of the table is created or
\* modified, no command is given, the timers are left alone and DoNothing
\* is returned.
C10_StopBluetoothNoop ==
    [][(/\ turn'.kind = "StopBluetooth"
        /\ (\/ ~is_known(SM, turn'.hci)
            \/ get_process_state(SM, turn'.hci) \in {"Off", "TurningOff"}))
       => (/\ state' = state
           /\ turn'.cmds = << >>
           /\ turn'.ret = "DoNothing"
           /\ TimerUnchanged)]_vars

\* A stop for an hci that is not in the table.
C10_Witness ==
    /\ turn.kind = "StopBluetooth"
    /\ ~turn.known
    /\ turn.ret = "DoNothing"
    /\ turn.hci \notin DOMAIN state

\* C11: after the consecutive turns StartBluetooth (adapter present and Off,
\* floss enabled), BluetoothStarted, StopBluetooth, BluetoothStopped for one
\* hci, the adapter is Off and has no entry in per_hci_timeout; the last turn
\* found TurningOff and returned CancelTimer.
C11_StartStopCycle ==
    turn.run.seq = 4 =>
        /\ state[turn.hci].state = "Off"
        /\ turn.hci \notin DOMAIN per_hci_timeout
        /\ turn.prev_state = "TurningOff"
        /\ turn.ret = "CancelTimer"

\* The fourth turn of the sequence has been taken.
C11_Witness ==
    /\ turn.run.seq = 4
    /\ turn.kind = "BluetoothStopped"
    /\ state[turn.hci].state = "Off"

\* The state machine after the step.
SMnext == [SM EXCEPT !.state = state']

\* C12: a BluetoothStopped turn for an adapter that is On with floss and
\* config enabled and restart_count below RESET_ON_RESTART_COUNT leaves it
\* TurningOn with restart_count one higher, gives exactly Start, returns
\* ResetTimer and sets the timer, whether the adapter is present or not.
C12_StoppedRestarts ==
    [][(/\ turn'.kind = "BluetoothStopped"
        /\ get_process_state(SM, turn'.hci) = "On"
        /\ floss_enabled
        /\ get_config_enabled(SM, turn'.hci)
        /\ get_restart_count(SM, turn'.hci) < RESET_ON_RESTART_COUNT)
       => (/\ state'[turn'.hci].state = "TurningOn"
           /\ state'[turn'.hci].restart_count = state[turn'.hci].restart_count + 1
           /\ state'[turn'.hci].present = state[turn'.hci].present
           /\ turn'.cmds = << <<"Start", turn'.hci>> >>
           /\ turn'.ret = "ResetTimer"
           /\ turn'.hci \in DOMAIN per_hci_timeout'
           /\ per_hci_timeout'[turn'.hci] = TimeoutTicks)]_vars

\* A daemon restarted after it stopped while its adapter was not present.
C12_Witness ==
    /\ turn.kind = "BluetoothStopped"
    /\ turn.prev_state = "On"
    /\ turn.ret = "ResetTimer"
    /\ ~state[turn.hci].present
    /\ state[turn.hci].state = "TurningOn"
    /\ state[turn.hci].restart_count = 1

\* C13: of RESET_ON_RESTART_COUNT + 1 consecutive BluetoothStopped turns for
\* an adapter that was On with floss and config enabled, each of the first
\* RESET_ON_RESTART_COUNT starts the daemon again and the last one gives
\* Reset and leaves the adapter Off with restart_count 0.
C13_StopsEscalateToReset ==
    /\ turn.run.stops \in 1..RESET_ON_RESTART_COUNT =>
          /\ turn.cmds = << <<"Start", turn.hci>> >>
          /\ state[turn.hci].state = "TurningOn"
    /\ turn.run.stops = RESET_ON_RESTART_COUNT + 1 =>
          /\ turn.cmds = << <<"Reset", turn.hci>> >>
          /\ state[turn.hci].state = "Off"
          /\ state[turn.hci].restart_count = 0

C15_TimeoutRetriesStart ==
    [][(/\ turn'.kind = "CommandTimeout"
        /\ get_process_state(SM, turn'.hci) = "TurningOn"
        /\ floss_enabled
        /\ get_config_enabled(SM, turn'.hci)
        /\ get_restart_count(SM, turn'.hci) < RESET_ON_RESTART_COUNT)
       => (/\ state'[turn'.hci].state = "TurningOn"
           /\ state'[turn'.hci].restart_count = state[turn'.hci].restart_count + 1
           /\ state'[turn'.hci].present = state[turn'.hci].present
           /\ turn'.cmds = << <<"Stop", turn'.hci>>, <<"Start", turn'.hci>> >>
           /\ turn'.ret = "RetryStart"
           /\ turn'.hci \in DOMAIN per_hci_timeout'
           /\ per_hci_timeout'[turn'.hci] = TimeoutTicks)]_vars

\* A start retried after a timeout while the adapter was not present.
C15_Witness ==
    /\ turn.kind = "CommandTimeout"
    /\ turn.prev_state = "TurningOn"
    /\ turn.ret = "RetryStart"
    /\ ~state[turn.hci].present
    /\ state[turn.hci].restart_count = RESET_ON_RESTART_COUNT
    /\ per_hci_timeout[turn.hci] = TimeoutTicks

\* C16: the (RESET_ON_RESTART_COUNT + 1)-th consecutive CommandTimeout turn
\* for an adapter in TurningOn with floss and config enabled gives Reset and
\* no Start, leaves the adapter Off with restart_count 0, and no entry for
\* the hci is left in per_hci_timeout.
C16_TimeoutsEscalateToReset ==
    turn.run.timeouts = RESET_ON_RESTART_COUNT + 1 =>
        /\ turn.cmds = << <<"Reset", turn.hci>> >>
        /\ state[turn.hci].state = "Off"
        /\ state[turn.hci].restart_count = 0
        /\ turn.hci \notin DOMAIN per_hci_timeout

\* C17: a CommandTimeout turn for an adapter that is TurningOn while floss is
\* disabled leaves it Off with restart_count as it was, gives exactly Stop,
\* returns Noop and does not touch the timers, whatever config_enabled is.
C17_TimeoutFlossDisabled ==
    [][(/\ turn'.kind = "CommandTimeout"
        /\ get_process_state(SM, turn'.hci) = "TurningOn"
        /\ ~floss_enabled)
       => (/\ state'[turn'.hci].state = "Off"
           /\ state'[turn'.hci].restart_count = state[turn'.hci].restart_count
           /\ turn'.cmds = << <<"Stop", turn'.hci>> >>
           /\ turn'.ret = "Noop"
           /\ TimerUnchanged)]_vars

\* A start given up after a timeout with floss disabled and config enabled.
C17_Witness ==
    /\ turn.kind = "CommandTimeout"
    /\ turn.prev_state = "TurningOn"
    /\ turn.ret = "Noop"
    /\ ~floss_enabled
    /\ state[turn.hci].config_enabled
    /\ state[turn.hci].state = "Off"
    /\ turn.cmds = << <<"Stop", turn.hci>> >>

\* The CommandTimeout messages the timer task has not delivered yet.
TimeoutInFlight(h) ==
    \/ \E i \in 1..Len(rx) : rx[i].kind = "CommandTimeout" /\ rx[i].hci = h
    \/ \E i \in 1..Len(completed) : completed[i] = h

\* C18: a CommandTimeout turn for an adapter that is TurningOff keeps it
\* TurningOff, gives Stop again, returns RetryStop and sets the timer; an
\* adapter that is TurningOff leaves that state only in a BluetoothStarted
\* or BluetoothStopped turn, and until then it has an entry in
\* per_hci_timeout or the CommandTimeout of its expired entry is on its way
\* to mainloop.
C18_TimeoutRetriesStop ==
    [][/\ (/\ rx # << >>
           /\ rx' = Tail(rx)
           /\ get_process_state(SM, Head(rx).hci) = "TurningOff")
          => (/\ state' = state
              /\ turn'.kind = "CommandTimeout"
              /\ turn'.cmds = << <<"Stop", Head(rx).hci>> >>
              /\ turn'.ret = "RetryStop"
              /\ Head(rx).hci \in DOMAIN per_hci_timeout'
              /\ per_hci_timeout'[Head(rx).hci] = TimeoutTicks)
       /\ \A h \in DOMAIN state :
             (state[h].state = "TurningOff" /\ state'[h].state # "TurningOff")
             => (turn'.kind \in {"BluetoothStarted", "BluetoothStopped"}
                 /\ turn'.hci = h)
       /\ \A h \in DOMAIN state' :
             state'[h].state = "TurningOff"
             => (h \in DOMAIN per_hci_timeout' \/ TimeoutInFlight(h)')]_vars

\* A stop retried after a timeout.
C18_Witness ==
    /\ turn.kind = "CommandTimeout"
    /\ turn.prev_state = "TurningOff"
    /\ turn.ret = "RetryStop"
    /\ turn.cmds = << <<"Stop", turn.hci>> >>
    /\ state[turn.hci].state = "TurningOff"
    /\ turn.hci \in DOMAIN per_hci_timeout

\* C19: the second of two consecutive HciDevicePresence(hci, true) turns
\* changes no field of an adapter and no global field, gives no command and
\* returns DoNothing, so no default adapter change is announced again.
C19_PresenceTwice ==
    [][turn'.run.presents = 2
       => (/\ state' = state
           /\ floss_enabled' = floss_enabled
           /\ default_adapter' = default_adapter
           /\ desired_adapter' = desired_adapter
           /\ turn'.cmds = << >>
           /\ turn'.ret = "DoNothing"
           /\ \A i \in 1..Len(turn'.notifs) :
                 turn'.notifs[i][1] # "default_adapter_change")]_vars

\* The second HciDevicePresence(hci, true) in a row, the first of which made
\* the adapter the default and started it.
C19_Witness ==
    /\ turn.run.presents = 2
    /\ turn.kind = "HciDevicePresence"
    /\ turn.prev_state = "TurningOn"
    /\ default_adapter = turn.hci
    /\ state[turn.hci].present

\* C20: an HciDevicePresence(hci, true) turn for an adapter that was absent
\* and Off, with config and floss enabled, marks it present, sets
\* restart_count to 0, gives Start and leaves it TurningOn; every other
\* HciDevicePresence turn leaves the state of the adapter as it was.
C20_PresenceStarts ==
    [][turn'.kind = "HciDevicePresence"
       => LET h == turn'.hci
              starts == /\ turn'.msg.present
                        /\ ~get_present(SM, h)
                        /\ get_process_state(SM, h) = "Off"
                        /\ get_config_enabled(SM, h)
                        /\ floss_enabled
          IN  /\ starts => /\ state'[h].present
                           /\ state'[h].restart_count = 0
                           /\ turn'.cmds = << <<"Start", h>> >>
                           /\ state'[h].state = "TurningOn"
              /\ ~starts => /\ get_process_state(SMnext, h) = get_process_state(SM, h)
                            /\ turn'.cmds = << >>]_vars

\* An adapter that had given up with a restart counted came back and was
\* started.
C20_Witness ==
    /\ turn.kind = "HciDevicePresence"
    /\ turn.msg.present
    /\ turn.prev_state = "Off"
    /\ turn.cmds = << <<"Start", turn.hci>> >>
    /\ state[turn.hci].state = "TurningOn"
    /\ state[turn.hci].restart_count = 0

\* The callbacks of a turn, as a set.
Notified(t) == {t.notifs[i] : i \in DOMAIN t.notifs}
DefaultChange(h) == <<"default_adapter_change", h, FALSE>>
DefaultChanges(t) == {n \in Notified(t) : n[1] = "default_adapter_change"}

C21_NeverBothTurns ==
    [][~(/\ turn.kind = "HciDevicePresence" /\ turn.hci = 0
         /\ turn.msg.present
         /\ turn.prev_state = "Off" /\ turn.cmds = << <<"Start", 0>> >>
         /\ turn'.kind = "BluetoothStarted" /\ turn'.hci = 0
         /\ turn'.msg.pid = DaemonPid
         /\ get_process_state(SMnext, 0) = "On")]_vars

\* C22: when an adapter that was not present becomes present, is the
\* desired adapter and is not the default adapter, the HciDevicePresence
\* turn makes it the default adapter and calls
\* callback_default_adapter_change for it.
C22_DesiredAppears ==
    [][\A h \in AdapterHCIs :
          (/\ turn'.kind = "HciDevicePresence" /\ turn'.hci = h
           /\ turn'.msg.present
           /\ ~get_present(SM, h)
           /\ h = desired_adapter
           /\ h # default_adapter)
          => /\ default_adapter' = h
             /\ DefaultChanges(turn') = {DefaultChange(h)}]_vars

\* Adapters 1 and 2 were present with 1 the default and 0 desired; 0 has
\* appeared and is the default.
C22_Witness ==
    /\ turn.kind = "HciDevicePresence" /\ turn.hci = 0 /\ turn.msg.present
    /\ turn.ret = "NewDefaultAdapter"
    /\ Present = {0, 1, 2}
    /\ desired_adapter = 0
    /\ default_adapter = 0
    /\ DefaultChange(0) \in Notified(turn)

C23_WitnessNone ==
    /\ turn.kind = "HciDevicePresence" /\ ~turn.msg.present
    /\ turn.known /\ turn.hci = default_adapter
    /\ turn.hci \in DOMAIN state /\ Present = {}
    /\ turn.ret = "DoNothing"

C24_WitnessAbsent ==
    /\ turn.kind = "SetDesiredDefaultAdapter" /\ turn.hci = 2
    /\ turn.ret = "DoNothing"
    /\ desired_adapter = 2 /\ default_adapter # 2
    /\ 2 \notin Present

\* The copies of task t that ended in this step.
Ended(t) == CopiesIn(t, spawned') < CopiesIn(t, spawned)
OneTaskLess == BagCardinality(spawned') = BagCardinality(spawned) - 1

\* C25: HciDevicePresence(hci, false) is sent to mainloop only by the
\* debounce task of an IndexRemoved(hci) that found the device missing
\* when it checked after its sleep; a debounce task that finds the device
\* there ends without sending anything, and no task waits to send
\* HciDevicePresence(hci, false) after it found the device there.
C25_IndexRemovedDebounce ==
    [][\A h \in HCIs :
          /\ rx' = Append(rx, HciDevicePresence(h, FALSE))
                => \E t \in Tasks :
                      /\ t.task = "debounce" /\ t.hci = h
                      /\ Ended(t) /\ OneTaskLess
                      /\ IF t.pc = "sleep" THEN h \notin hci_dev
                         ELSE ~t.exists
          /\ \A t \in Tasks :
                (/\ t.task = "debounce" /\ t.hci = h /\ t.pc = "sleep"
                 /\ Ended(t) /\ h \in hci_dev)
                => rx' = rx /\ OneTaskLess
          /\ \A t \in BagToSet(spawned') :
                (t.task = "debounce" /\ t.hci = h /\ t.pc = "send")
                => ~t.exists]_vars

\* The device of hci 0 is gone, the debounce task of its IndexRemoved has
\* ended and HciDevicePresence(0, false) is the last message in the channel.
C25_Witness ==
    /\ 0 \notin hci_dev
    /\ rx # << >>
    /\ rx[Len(rx)] = HciDevicePresence(0, FALSE)
    /\ \A t \in Tasks : ~(t.task = "debounce" /\ t.hci = 0)
    /\ mgmt = << >>

\* Violated by the behaviours in which a debounce task finds its device
\* there: the second half of C25 is about them.
C25_NeverReappeared ==
    [][\A t \in Tasks :
          ~(/\ t.task = "debounce" /\ t.pc = "sleep"
            /\ Ended(t) /\ t.hci \in hci_dev)]_vars

\* C27: messages of one source are handled in the order the source
\* produced them: when mainloop takes the StopBluetooth(h) of a caller that
\* called start_bluetooth(h) and then stop_bluetooth(h), the
\* StartBluetooth(h) of that caller is neither waiting to be sent nor in
\* the channel.
C27_SourceOrder ==
    [][\A h \in DaemonHCIs :
          (rx # << >> /\ Head(rx) = StopBluetooth(h) /\ rx' = Tail(rx))
          => ~InFlight("StartBluetooth", h)]_vars

AdapterStateChanges == {"StartBluetooth", "StopBluetooth", "BluetoothStarted",
                        "BluetoothStopped", "HciDevicePresence"}
EnabledChanges(t) == {n \in Notified(t) : n[1] = "hci_enabled_change"}

\* C26: in the turn of every AdapterStateChange message for hci h, mainloop
\* calls callback_hci_enabled_change(h, e) exactly when the state of
\* adapter h before the turn differs from its state after the turn and one
\* of the two is On, and then e says whether the state after is On; an
\* adapter that stays On gets no hci_enabled_change(h, false).
C26_EnabledChange ==
    [][\A h \in HCIs :
          (turn'.kind \in AdapterStateChanges /\ turn'.hci = h)
          => LET before == get_process_state(SM, h)
                 after == get_process_state(SMnext, h)
             IN  EnabledChanges(turn') =
                    IF before # after /\ (before = "On" \/ after = "On")
                    THEN {<<"hci_enabled_change", h, after = "On">>}
                    ELSE {}]_vars

\* C29: an adapter is On only when a presence of its hci has been seen as
\* well as its pid file: no adapter is On while its present flag is false.
C29_OnIsPresent ==
    \A h \in DOMAIN state : state[h].state = "On" => state[h].present

AdapterOperations == {"StartBluetooth", "StopBluetooth", "BluetoothStarted",
                      "BluetoothStopped", "CommandTimeout", "HciDevicePresence"}

\* C30: the turn of a StartBluetooth, StopBluetooth, BluetoothStarted,
\* BluetoothStopped, CommandTimeout or HciDevicePresence message for hci h
\* leaves every other hci as it was: in the table or not, and with the
\* same AdapterState.
C30_OtherAdaptersUnchanged ==
    [][\A h \in HCIs :
          (turn'.kind \in AdapterOperations /\ turn'.hci = h)
          => \A g \in HCIs \ {h} :
                /\ g \in DOMAIN state' <=> g \in DOMAIN state
                /\ g \in DOMAIN state => state'[g] = state[g]]_vars

\* Adapter 1 was started and its daemon came up while adapter 0, present
\* and enabled in the configuration, stayed Off.
C30_Witness ==
    /\ turn.kind = "BluetoothStarted" /\ turn.hci = 1
    /\ turn.prev_state = "TurningOn"
    /\ get_process_state(SM, 1) = "On"
    /\ 0 \in DOMAIN state
    /\ state[0].state = "Off" /\ state[0].present /\ state[0].config_enabled

\* C28: process_manager.start(hci) is never called while the daemon of hci
\* is started, that is after an earlier start(hci) that was followed by
\* neither a stop(hci) nor a BluetoothStopped message for hci.
C28_OneDaemonPerHci ==
    [][\A i \in DOMAIN turn'.cmds :
          turn'.cmds[i][1] = "Start"
          => turn'.cmds[i][2] \notin
                StartedAfter(StartedBefore(turn'), SubSeq(turn'.cmds, 1, i - 1))]_vars

\* The name is bluetooth<N>.pid with N one or more decimal digits.
IsPidFileName(name) ==
    /\ Len(name) >= 14
    /\ SubSeq(name, 1, 9) = BluetoothLit
    /\ SubSeq(name, Len(name) - 3, Len(name)) = <<".">> \o PidLit
    /\ \A j \in 10..(Len(name) - 4) : IsDigit(name[j])
\* N, or -1 when N is above i32::MAX.
IndexOfPidFileName(name) == DecimalValue(SubSeq(name, 10, Len(name) - 4))

\* C31: get_hci_index_from_pid_path returns Some(N) for every name of the
\* form bluetooth<N>.pid, N one or more decimal digits, and None for every
\* other name.
C31_ParseHciIndex ==
    turn.kind = "parse"
    => LET name == turn.msg.name
       IN  IF IsPidFileName(name)
           THEN turn.hci >= 0 /\ turn.hci = IndexOfPidFileName(name)
           ELSE turn.hci = NoHci

HasCmd(t, name) == \E i \in DOMAIN t.cmds : t.cmds[i][1] = name

\* C32: an adapter that is On has restart_count 0, so that a
\* BluetoothStopped turn never finds restart_count >= RESET_ON_RESTART_COUNT
\* in state On and never resets the hci.
C32_OnHasNoRestarts ==
    /\ \A h \in DOMAIN state :
          state[h].state = "On" => state[h].restart_count = 0
    /\ turn.kind = "BluetoothStopped" => ~HasCmd(turn, "Reset")

\* BluetoothStopped found adapter 0 On with floss and the configuration
\* enabled: restart_count was 0 and the daemon was started again.
C32_Witness ==
    /\ turn.kind = "BluetoothStopped" /\ turn.hci = 0
    /\ turn.prev_state = "On"
    /\ get_config_enabled(SM, 0) /\ floss_enabled
    /\ turn.cmds = << <<"Start", 0>> >>
    /\ get_process_state(SM, 0) = "TurningOn"
    /\ get_restart_count(SM, 0) = 1

(***************************************************************************)
(* SpecPid: the task of configure_pid, the files of PID_DIR and mainloop   *)
(* taking the PidChange messages.  Files are created and deleted by the    *)
(* daemons at any time.  The inotify instance queues an event for every    *)
(* creation and deletion in PID_DIR from add_watch on, and for none        *)
(* before.  list_pid_files is the pid files of the directory at the time   *)
(* of the call.                                                            *)
(***************************************************************************)
Watching == pid_task.pc \in {"watch", "events"}
IsPidFile(name) == HciIndexOfName[name] # NoHci

\* The inotify queue after the event <<mask, name>> in PID_DIR.
Notify(mask, name) ==
    IF Watching THEN Append(pid_task.events, <<mask, name>>)
    ELSE pid_task.events

\* A file appears in PID_DIR.
PidCreate ==
    /\ Len(pid_task.events) < MaxEvents
    /\ \E name \in PidDirNames \ pid_dir :
          /\ pid_dir' = pid_dir \cup {name}
          /\ pid_task' = [pid_task EXCEPT
                            !.events = Notify("CREATE", name),
                            !.unreported = IF IsPidFile(name)
                                           THEN @ \cup {name} ELSE @]
    /\ UNCHANGED <<sm_vars, ct_vars, rx, loop_vars, timer_vars,
                   hci_dev, mgmt, spawned>>

\* A file of PID_DIR is removed.
PidDelete ==
    /\ Len(pid_task.events) < MaxEvents
    /\ \E name \in pid_dir :
          /\ pid_dir' = pid_dir \ {name}
          /\ pid_task' = [pid_task EXCEPT
                            !.events = Notify("DELETE", name),
                            !.unreported = @ \ {name}]
    /\ UNCHANGED <<sm_vars, ct_vars, rx, loop_vars, timer_vars,
                   hci_dev, mgmt, spawned>>

\* config_util::list_pid_files(PID_DIR), in the order of the directory.
PidList ==
    /\ pid_task.pc = "list"
    /\ LET found == {name \in pid_dir : IsPidFile(name)}
       IN  \E order \in [1..Cardinality(found) -> found] :
              /\ \A i, j \in 1..Cardinality(found) : i # j => order[i] # order[j]
              /\ pid_task' = [pid_task EXCEPT !.pc = "listed", !.files = order]
    /\ UNCHANGED <<sm_vars, ct_vars, rx, loop_vars, timer_vars,
                   hci_dev, mgmt, spawned, pid_dir>>

\* pid_tx.send_timeout(PidChange(CREATE, Some(file))) for a listed file.
PidSendListed ==
    /\ pid_task.pc = "listed"
    /\ pid_task.files # << >>
    /\ Send(PidChange("CREATE", Head(pid_task.files)))
    /\ pid_task' = [pid_task EXCEPT
                      !.files = Tail(@),
                      !.unreported = @ \ {Head(pid_task.files)}]
    /\ UNCHANGED <<sm_vars, ct_vars, loop_vars, timer_vars,
                   hci_dev, mgmt, spawned, pid_dir>>

\* pid_inotify_async_fd(): Inotify::init and add_watch, after the last
\* listed file was sent.
PidWatch ==
    /\ pid_task.pc = "listed"
    /\ pid_task.files = << >>
    /\ pid_task' = [pid_task EXCEPT !.pc = "watch", !.events = << >>]
    /\ UNCHANGED <<sm_vars, ct_vars, rx, loop_vars, timer_vars,
                   hci_dev, mgmt, spawned, pid_dir>>

\* The inotify instance is readable: read_events takes what is queued.
PidReadEvents ==
    /\ pid_task.pc = "watch"
    /\ pid_task.events # << >>
    /\ pid_task' = [pid_task EXCEPT !.pc = "events", !.batch = pid_task.events,
                                    !.events = << >>]
    /\ UNCHANGED <<sm_vars, ct_vars, rx, loop_vars, timer_vars,
                   hci_dev, mgmt, spawned, pid_dir>>

\* pid_tx.send_timeout(PidChange(event.mask, event.name)) for an event read.
PidSendEvent ==
    /\ pid_task.pc = "events"
    /\ LET e == Head(pid_task.batch)
       IN  /\ Send(PidChange(e[1], e[2]))
           /\ pid_task' = [pid_task EXCEPT
                             !.batch = Tail(@),
                             !.pc = IF Tail(pid_task.batch) = << >>
                                    THEN "watch" ELSE "events",
                             !.unreported = IF e[1] = "CREATE"
                                            THEN @ \ {e[2]} ELSE @]
    /\ UNCHANGED <<sm_vars, ct_vars, loop_vars, timer_vars,
                   hci_dev, mgmt, spawned, pid_dir>>

\* tokio::fs::read of a pid file: an error when the file is gone.
PidFileReadOf(name) ==
    IF name \in pid_dir THEN {"pid", "unparsable"} ELSE {"unreadable"}

\* mainloop takes a PidChange from the channel.  With a message to forward,
\* it goes on to send_timeout.
PidLoopRecv ==
    /\ Receiving
    /\ Head(rx).kind = "PidChange"
    /\ \E read \in PidFileReadOf(Head(rx).name) :
          LET fwd == OnPidChange(Head(rx), read)
          IN  IF fwd = NoMsg
              THEN UNCHANGED <<loop_pc, loop_msg>>
              ELSE loop_pc' = "send" /\ loop_msg' = fwd
    /\ rx' = Tail(rx)
    /\ UNCHANGED <<sm_vars, ct_vars, turn, timer_vars, env_vars>>

NextPid ==
    \/ PidCreate
    \/ PidDelete
    \/ PidList
    \/ PidSendListed
    \/ PidWatch
    \/ PidReadEvents
    \/ PidSendEvent
    \/ PidLoopRecv
    \/ LoopSend
    \/ LoopSendTimeout
    \/ RecvBluetoothStarted
    \/ RecvBluetoothStopped

SpecPid == Init /\ [][NextPid]_vars

(***************************************************************************)
(* SpecLive: mainloop, the clock and the timer task of Spec under          *)
(* fairness, for a daemon that never writes its pid file: there is no      *)
(* PidChange and so no BluetoothStarted, and floss_enabled stays as it     *)
(* is.  The clients do not repeat a start request while the adapter is     *)
(* not Off, so that no deadline is pushed away for ever from outside.      *)
(* Time passes, the timer task is scheduled (tokio::spawn, 535-547) and    *)
(* mainloop takes the CommandTimeout that waits in the channel; the        *)
(* requests of the clients and of the kernel are under no fairness.        *)
(***************************************************************************)
LiveStartBluetooth ==
    /\ AtRecv
    /\ \E hci \in DaemonHCIs :
          /\ get_process_state(SM, hci) = "Off"
          /\ Commit(OnStartBluetooth(StartBluetooth(hci)))
    /\ UNCHANGED <<rx, loop_vars, timer_vars, env_vars>>

NextLive ==
    \/ LiveStartBluetooth
    \/ RecvStopBluetooth
    \/ RecvHciDevicePresence
    \/ RecvCommandTimeout
    \/ ProxyModifyState
    \/ ClockTick
    \/ TimerExpire
    \/ TimerSend

SpecLive ==
    /\ Init
    /\ [][NextLive]_vars
    /\ WF_vars(ClockTick)
    /\ WF_vars(TimerExpire)
    /\ WF_vars(TimerSend)
    /\ WF_vars(RecvCommandTimeout)

\* C33: a CommandTimeout(h) that was in the queue when mainloop took a
\* StartBluetooth(h), StopBluetooth(h) or BluetoothStarted(h) that set or
\* cancelled the timer of h belongs to an earlier attempt: when mainloop
\* takes it next, it changes no adapter and gives no command.
C33_StaleTimeoutIgnored ==
    [][\A h \in DaemonHCIs :
          (/\ rx # << >> /\ Head(rx) = CommandTimeoutMsg(h) /\ rx' = Tail(rx)
           /\ turn.kind \in {"StartBluetooth", "StopBluetooth", "BluetoothStarted"}
           /\ turn.hci = h
           /\ turn.ret \in {"ResetTimer", "CancelTimer"}
           /\ turn.run.queued)
          => /\ state' = state
             /\ turn'.cmds = << >>]_vars

\* C34: mainloop never runs into the timeout of its own send_timeout: the
\* BluetoothStarted or BluetoothStopped that the PidChange branch puts into
\* the channel always finds room, whatever the other senders have queued.
C34_LoopSendCompletes ==
    /\ loop_pc # "panicked"
    /\ loop_pc = "send" => loop_msg.kind \in {"BluetoothStarted", "BluetoothStopped"}

\* C37: a turn of a handler taken while floss_enabled is false gives no
\* Start command: none of StartBluetooth, BluetoothStopped, CommandTimeout
\* and HciDevicePresence starts a daemon then.
C37_NoStartWithoutFloss ==
    (/\ turn.kind \in {"StartBluetooth", "StopBluetooth", "BluetoothStarted",
                       "BluetoothStopped", "CommandTimeout", "HciDevicePresence",
                       "SetDesiredDefaultAdapter"}
     /\ ~floss_enabled)
    => ~HasCmd(turn, "Start")

\* A CommandTimeout found the adapter in TurningOn with config_enabled while
\* floss was disabled: the daemon is stopped, not started again.
C37_Witness ==
    /\ turn.kind = "CommandTimeout" /\ turn.hci = 0
    /\ ~floss_enabled
    /\ turn.prev_state = "TurningOn"
    /\ get_config_enabled(SM, 0)
    /\ turn.cmds = << <<"Stop", 0>> >>
    /\ get_process_state(SM, 0) = "Off"

\* C39: an adapter that goes from Off to TurningOn has restart_count 0, so
\* that every start from Off has all RESET_ON_RESTART_COUNT retries before
\* the hci is reset.
C39_StartFromOffHasFullBudget ==
    [][\A h \in HCIs :
          (/\ get_process_state(SM, h) = "Off"
           /\ h \in DOMAIN state'
           /\ state'[h].state = "TurningOn")
          => state'[h].restart_count = 0]_vars

C36_StoppedStaysStopped ==
    [][\A h \in DaemonHCIs :
          (/\ turn.kind = "StopBluetooth" /\ turn.hci = h
           /\ turn.known
           /\ turn.prev_state \in {"On", "TurningOn"}
           /\ get_process_state(SM, h) # "On")
          => ~(h \in DOMAIN state' /\ state'[h].state = "On")]_vars

\* C35: with the timer task and mainloop scheduled and floss_enabled left
\* alone, an adapter in TurningOn whose daemon never reports gets to On or
\* Off in the end.
C35_TurningOnEnds ==
    \A h \in DaemonHCIs :
        (get_process_state(SM, h) = "TurningOn")
        ~> (get_process_state(SM, h) \in {"On", "Off"})

\* C40: when the task of configure_pid waits on its inotify instance and no
\* event is queued there, a PidChange(CREATE) was sent for every pid file of
\* PID_DIR since the file was created.
C40_NoCreationLost ==
    (pid_task.pc = "watch" /\ pid_task.events = << >>)
    => pid_task.unreported = {}

=============================================================================
